---- MODULE Spec2Model ----
(***************************************************************************)
(* State-machine model of the API gateway's failure-control subsystems:    *)
(* the per-upstream circuit breaker (src/src/layers/forwarding.js) and the *)
(* fixed-window rate limiter (src/src/layers/auth.js, class                *)
(* RateLimitLayer).  Time is the value of Date.now() in milliseconds.      *)
(***************************************************************************)
EXTENDS Integers, Sequences, FiniteSets, TLC

\* ------------------------------------------------------------------ bounds
MaxTime == 60000
MaxThreshold == 2
MaxLimit == 2

\* Steps by which the clock advances between two handlers: the breaker's
\* recovery timeout, which is half a rate-limit window.
TickSteps == {30000}

\* Concurrent callers of CircuitBreaker.execute and upstream service keys.
Callers == {"c1", "c2"}
Services == {"localhost:3001", "localhost:3002"}

\* --------------------------------------------------------------- constants
\* JavaScript null in a field that otherwise holds a timestamp (timestamps are >= 0).
Null == -1

\* CIRCUIT_STATES
CLOSED == "closed"
OPEN == "open"
HALF_OPEN == "half-open"
CIRCUIT_STATES == {CLOSED, OPEN, HALF_OPEN}

\* config.circuitBreaker.recoveryTimeout (default)
recoveryTimeout == 30000

\* the literal 3 in CircuitBreaker.onSuccess
halfOpenSuccessQuorum == 3

VARIABLES
    now,              \* Date.now()
    failureThreshold, \* config.circuitBreaker.failureThreshold
    circuitBreakers,  \* ForwardingLayer.circuitBreakers: a Map from service key to breaker
    calls,            \* per caller: position in CircuitBreaker.execute and the service it addresses
    ret,              \* <<v>> when the last step was an administrative operation that returned v, else <<>>
    streak,           \* history: per service, wrapped-call failures completed since the last success or reset
    hoSuccesses,      \* history: per service, successes completed in the current HALF_OPEN period (0 outside one)
    rateLimitTiers,   \* RateLimitLayer.rateLimitTiers: configured tier name -> [requests, windowMs]
    defaultTier,      \* RateLimitLayer.defaultTier
    isConnected,      \* RateLimitLayer.isConnected
    store,            \* the counter store: a map from window key to [count, expireAt]
    reqs,             \* per request slot: position in RateLimitLayer.middleware and its locals
    allowedIn,        \* history: allowed store-computed decisions per <<tier, identity, window number>>
    gw,               \* per request slot: the request in the gateway's pipeline, its position and its response
    proc,             \* the gateway process: ApiGateway.isShuttingDown, healthStatus.status, the server, the store client, the exit
    routing           \* RoutingLayer: the lists routes and compiledRoutes

breakerVars == <<failureThreshold, circuitBreakers, calls, streak, hoSuccesses>>
limiterVars == <<rateLimitTiers, defaultTier, isConnected, store, reqs, allowedIn>>
gatewayVars == <<gw>>
processVars == <<proc>>
routingVars == <<routing>>
vars == <<now, ret, breakerVars, limiterVars, gatewayVars, processVars, routingVars>>

\* ------------------------------------------------------- CircuitBreaker
\* constructor: a fresh breaker
NewBreaker ==
    [state |-> CLOSED, failureCount |-> 0, lastFailureTime |-> Null,
     nextAttempt |-> Null, successCount |-> 0]

\* JavaScript `t < x` for a number t and x a number or null (null converts to 0).
LessThan(t, x) == IF x = Null THEN t < 0 ELSE t < x

\* execute() with the rejection counted as a failure of the breaker.
execute_countsRejection(b, t) ==
    IF b.state = OPEN
    THEN IF LessThan(t, b.nextAttempt)
         THEN [breaker |-> [b EXCEPT !.failureCount = @ + 1, !.lastFailureTime = t],
               admitted |-> FALSE]
         ELSE [breaker |-> [b EXCEPT !.state = HALF_OPEN, !.successCount = 0],
               admitted |-> TRUE]
    ELSE [breaker |-> b, admitted |-> TRUE]

\* execute() that still rejects at the instant now = nextAttempt.
execute_rejectsAtDeadline(b, t) ==
    IF b.state = OPEN
    THEN IF b.nextAttempt # Null /\ t <= b.nextAttempt
         THEN [breaker |-> b, admitted |-> FALSE]
         ELSE [breaker |-> [b EXCEPT !.state = HALF_OPEN, !.successCount = 0],
               admitted |-> TRUE]
    ELSE [breaker |-> b, admitted |-> TRUE]

\* execute() that enters HALF_OPEN without clearing successCount.
execute_keepsSuccessCount(b, t) ==
    IF b.state = OPEN
    THEN IF LessThan(t, b.nextAttempt)
         THEN [breaker |-> b, admitted |-> FALSE]
         ELSE [breaker |-> [b EXCEPT !.state = HALF_OPEN], admitted |-> TRUE]
    ELSE [breaker |-> b, admitted |-> TRUE]

\* The synchronous head of execute(): the OPEN check.  Returns the breaker
\* after the check and whether requestFn is invoked.
execute(b, t) ==
    IF b.state = OPEN
    THEN IF LessThan(t, b.nextAttempt)
         THEN [breaker |-> b, admitted |-> FALSE]
         ELSE [breaker |-> [b EXCEPT !.state = HALF_OPEN, !.successCount = 0],
               admitted |-> TRUE]
    ELSE [breaker |-> b, admitted |-> TRUE]

\* onSuccess() that closes the breaker one success too late.
onSuccess_quorumOffByOne(b) ==
    LET b1 == [b EXCEPT !.failureCount = 0] IN
    IF b1.state = HALF_OPEN
    THEN LET b2 == [b1 EXCEPT !.successCount = @ + 1] IN
         IF b2.successCount > halfOpenSuccessQuorum
         THEN [b2 EXCEPT !.state = CLOSED]
         ELSE b2
    ELSE b1

\* onSuccess() that clears failureCount only in HALF_OPEN.
onSuccess_keepsFailureCount(b) ==
    IF b.state = HALF_OPEN
    THEN LET b2 == [b EXCEPT !.failureCount = 0, !.successCount = @ + 1] IN
         IF b2.successCount >= halfOpenSuccessQuorum
         THEN [b2 EXCEPT !.state = CLOSED]
         ELSE b2
    ELSE b

onSuccess(b) ==
    LET b1 == [b EXCEPT !.failureCount = 0] IN
    IF b1.state = HALF_OPEN
    THEN LET b2 == [b1 EXCEPT !.successCount = @ + 1] IN
         IF b2.successCount >= halfOpenSuccessQuorum
         THEN [b2 EXCEPT !.state = CLOSED]
         ELSE b2
    ELSE b1

\* onFailure() that opens only after the threshold is exceeded.
onFailure_strictThreshold(b, t, threshold) ==
    LET b1 == [b EXCEPT !.failureCount = @ + 1, !.lastFailureTime = t] IN
    IF b1.state = HALF_OPEN
    THEN [b1 EXCEPT !.state = OPEN, !.nextAttempt = t + recoveryTimeout]
    ELSE IF b1.failureCount > threshold
         THEN [b1 EXCEPT !.state = OPEN, !.nextAttempt = t + recoveryTimeout]
         ELSE b1

\* onFailure() without the HALF_OPEN branch.
onFailure_noHalfOpenBranch(b, t, threshold) ==
    LET b1 == [b EXCEPT !.failureCount = @ + 1, !.lastFailureTime = t] IN
    IF b1.failureCount >= threshold
    THEN [b1 EXCEPT !.state = OPEN, !.nextAttempt = t + recoveryTimeout]
    ELSE b1

onFailure(b, t, threshold) ==
    LET b1 == [b EXCEPT !.failureCount = @ + 1, !.lastFailureTime = t] IN
    IF b1.state = HALF_OPEN
    THEN [b1 EXCEPT !.state = OPEN, !.nextAttempt = t + recoveryTimeout]
    ELSE IF b1.failureCount >= threshold
         THEN [b1 EXCEPT !.state = OPEN, !.nextAttempt = t + recoveryTimeout]
         ELSE b1

\* reset() that forces CLOSED but leaves the failure bookkeeping in place.
reset_keepsCounters(b) ==
    [b EXCEPT !.state = CLOSED, !.successCount = 0]

reset(b) ==
    [b EXCEPT !.state = CLOSED, !.failureCount = 0, !.lastFailureTime = Null,
              !.nextAttempt = Null, !.successCount = 0]

\* ------------------------------------------------------- ForwardingLayer
\* getCircuitBreaker that constructs a breaker on every lookup.
getCircuitBreaker_alwaysNew(table, s) ==
    [k \in DOMAIN table \cup {s} |-> IF k = s THEN NewBreaker ELSE table[k]]

\* getCircuitBreaker: the table after the lookup (the breaker is created on first use)
getCircuitBreaker(table, s) ==
    IF s \notin DOMAIN table
    THEN [k \in DOMAIN table \cup {s} |-> IF k = s THEN NewBreaker ELSE table[k]]
    ELSE table

IdleCall == [pc |-> "idle", svc |-> "none"]

\* ------------------------------------------------------- RateLimitLayer
\* Tier names that config.rateLimiting.tiers configures, and the tier names a
\* request can carry (the route's rateLimitTier, or the tier claim of a token).
ConfiguredTiers == {"basic"}

\* windowMs of the configured tiers and config.rateLimiting.defaultWindowMs
\* (an environment setting)
tierWindowMs == 60000
defaultWindowMs == 60000

\* req.context of the requests that reach the limiter: the authenticated user
\* (<<>> when req.context.user is null), the client address and the tier of
\* the matched route.
Anonymous == [user |-> <<>>, clientIp |-> "10.0.0.1", routeTier |-> "basic"]
GoldUser == [user |-> <<[id |-> "u1", tier |-> "gold"]>>, clientIp |-> "10.0.0.1", routeTier |-> "basic"]
Contexts == {Anonymous, GoldUser}

Reqs == {"r1", "r2"}

\* A result field that the code leaves out (undefined).
Undefined == "undefined"

\* getRateLimitKey that names every request by its client address.
getRateLimitKey_byAddress(ctx, tier) == <<tier, <<"ip", ctx.clientIp>>>>

\* getRateLimitKey: `rate_limit:${tier}:${identifier}` as the pair of its parts
getRateLimitKey(ctx, tier) ==
    LET identifier == IF ctx.user # <<>>
                      THEN <<"user", ctx.user[1].id>>
                      ELSE <<"ip", ctx.clientIp>>
    IN <<tier, identifier>>

\* getTierConfig
getTierConfig(tiers, dflt, tierName) ==
    IF tierName \in DOMAIN tiers THEN tiers[tierName] ELSE dflt

\* Math.floor(now / windowMs) * windowMs
windowStartOf(t, windowMs) == (t \div windowMs) * windowMs

\* Math.ceil(x / 1000)
CeilDiv1000(x) == (x + 999) \div 1000

\* The counter store drops a key when its time to live has run out.
live(st, t) == [k \in {j \in DOMAIN st : st[j].expireAt > t} |-> st[k]]

\* GET: the reply is the stored decimal counter, or Null for a missing key.
storeGet(st, k) == IF k \in DOMAIN st THEN st[k].count ELSE Null

\* parseInt(results[0] || 0)
parseCount(reply) == IF reply = Null THEN 0 ELSE reply

\* MULTI { INCR key; EXPIRE key seconds } with the time to live taken as milliseconds.
storeIncrExpire_expiresInMillis(st, k, seconds, t) ==
    LET c == IF k \in DOMAIN st THEN st[k].count ELSE 0 IN
    [j \in DOMAIN st \cup {k} |->
        IF j = k THEN [count |-> c + 1, expireAt |-> t + seconds] ELSE st[j]]

\* MULTI { INCR key; INCR key; EXPIRE key seconds }: the counter debited twice.
storeIncrExpire_countsTwice(st, k, seconds, t) ==
    LET c == IF k \in DOMAIN st THEN st[k].count ELSE 0 IN
    [j \in DOMAIN st \cup {k} |->
        IF j = k THEN [count |-> c + 2, expireAt |-> t + seconds * 1000] ELSE st[j]]

\* MULTI { INCR key; EXPIRE key seconds } executed at time t
storeIncrExpire(st, k, seconds, t) ==
    LET c == IF k \in DOMAIN st THEN st[k].count ELSE 0 IN
    [j \in DOMAIN st \cup {k} |->
        IF j = k THEN [count |-> c + 1, expireAt |-> t + seconds * 1000] ELSE st[j]]

\* checkRateLimit, line 339, with > for >=
limitReached_offByOne(currentCount, cfg) == currentCount > cfg.requests

\* checkRateLimit, line 339
limitReached(currentCount, cfg) == currentCount >= cfg.requests

\* checkRateLimit, not connected: line 314
notConnectedResult(t) ==
    [allowed |-> TRUE, remaining |-> -1, resetTime |-> t + 60000, tier |-> Undefined]

\* A catch block that rejects the request when the store fails.
failOpenResult_failClosed(t0, cfg) ==
    [allowed |-> FALSE, remaining |-> 0, resetTime |-> t0 + cfg.windowMs, tier |-> Undefined]

\* checkRateLimit, catch block: line 381
failOpenResult(t0, cfg) ==
    [allowed |-> TRUE, remaining |-> -1, resetTime |-> t0 + cfg.windowMs, tier |-> Undefined]

\* A denial whose resetTime is the start of the window instead of its end.
deniedResult_resetAtWindowStart(ws, cfg, tierName) ==
    [allowed |-> FALSE, remaining |-> 0, resetTime |-> ws, tier |-> tierName]

\* checkRateLimit, limit reached: lines 339-356
deniedResult(ws, cfg, tierName) ==
    [allowed |-> FALSE, remaining |-> 0, resetTime |-> ws + cfg.windowMs, tier |-> tierName]

\* checkRateLimit, counter incremented: lines 364-372
allowedResult(ws, cfg, tierName, currentCount) ==
    [allowed |-> TRUE, remaining |-> cfg.requests - currentCount - 1,
     resetTime |-> ws + cfg.windowMs, tier |-> tierName]

\* middleware, lines 388 and 391-405: the effective tier, the response headers
\* and the continuation (next() to the dispatcher, or next(error) with 429).
userTierOf(ctx) == IF ctx.user # <<>> THEN ctx.user[1].tier ELSE ctx.routeTier

middlewareOutcome(q, result, cfg) ==
    [q EXCEPT !.pc = IF result.allowed THEN "passed" ELSE "rejected",
              !.result = result,
              !.headers = [limit |-> cfg.requests,
                           remaining |-> result.remaining,
                           reset |-> CeilDiv1000(result.resetTime),
                           tier |-> IF result.tier # Undefined THEN result.tier ELSE q.tier],
              !.error = IF result.allowed THEN <<>>
                        ELSE <<[statusCode |-> 429, errorCode |-> "RATE_LIMIT_EXCEEDED",
                                remaining |-> result.remaining,
                                resetTime |-> result.resetTime,
                                tier |-> result.tier]>>]

NoResult == [allowed |-> TRUE, remaining |-> 0, resetTime |-> 0, tier |-> Undefined]
NoHeaders == [limit |-> 0, remaining |-> 0, reset |-> 0, tier |-> Undefined]

IdleReq ==
    [pc |-> "idle", ctx |-> <<>>, tier |-> Undefined, t0 |-> 0, windowStart |-> 0,
     currentCount |-> 0, result |-> NoResult, headers |-> NoHeaders, error |-> <<>>,
     infra |-> FALSE]

\* The request slot is free for a new request.
Finished(q) == q.pc \in {"idle", "passed", "rejected"}

\* A slot shows the outcome of its request in the step that produces it and
\* is idle again after the next step.
Settled(rs) == [r \in DOMAIN rs |-> IF Finished(rs[r]) THEN IdleReq ELSE rs[r]]

\* tier configuration of a request in the limiter
cfgOf(q) == getTierConfig(rateLimitTiers, defaultTier, q.tier)
windowKeyOf(q) == <<getRateLimitKey(q.ctx[1], q.tier), q.windowStart>>

\* history key of a request: its tier and identity and the number of the
\* window its sampled time lies in
HistoryKey(q) ==
    <<q.tier,
      IF q.ctx[1].user # <<>> THEN q.ctx[1].user[1].id ELSE q.ctx[1].clientIp,
      q.ctx[1].user # <<>>,
      q.t0 \div cfgOf(q).windowMs>>
\* The history keeps a window while the clock is in it or a request that
\* sampled its time in it is still in the limiter.
Current(h, rs, t) ==
    [k \in {j \in DOMAIN h :
                \/ j[4] = t \div getTierConfig(rateLimitTiers, defaultTier, j[1]).windowMs
                \/ \E r \in DOMAIN rs : ~Finished(rs[r]) /\ HistoryKey(rs[r]) = j} |-> h[k]]
AllowedSoFar(q) == IF HistoryKey(q) \in DOMAIN allowedIn THEN allowedIn[HistoryKey(q)] ELSE 0
CountAllowed(q) ==
    [k \in DOMAIN allowedIn \cup {HistoryKey(q)} |->
        IF k = HistoryKey(q) THEN AllowedSoFar(q) + 1 ELSE allowedIn[k]]

\* ------------------------------------------------------------- EntryLayer
\* A string that the code takes apart (a request path, a URL, an
\* Authorization header) is the sequence of its tokens: "/api/users" is
\* <<"/", "api", "/", "users">>.  Request paths are lower case.

\* validateMethod: the HTTP methods the gateway accepts
allowedMethods == {"GET", "POST", "PUT", "DELETE", "PATCH", "OPTIONS", "HEAD"}

\* express.json / express.urlencoded, which run before normalizeRequest: the
\* error they pass to next for a body they cannot parse (400) or that exceeds
\* the limit (413); <<>> when they call next().
bodyParser(body) ==
    CASE body = "malformed" -> <<[name |-> "SyntaxError", code |-> "none", statusCode |-> 400,
                                  errorCode |-> "none", response |-> <<>>]>>
      [] body = "oversize" -> <<[name |-> "PayloadTooLargeError", code |-> "none",
                                 statusCode |-> 413, errorCode |-> "none", response |-> <<>>]>>
      [] OTHER -> <<>>

\* normalizeRequest: req.requestId = req.headers['x-request-id'] || uuidv4()
normalizeRequest(req, uuid) ==
    IF req.xRequestId # <<>> /\ req.xRequestId[1] # "" THEN req.xRequestId[1] ELSE uuid

\* validateMethod: the response it sends (<<>> when it calls next)
validateMethod(req) ==
    IF req.method \notin allowedMethods
    THEN <<[status |-> 405, error |-> "Method Not Allowed"]>>
    ELSE <<>>

\* enforceGlobalLimits that rejects a URL of exactly 2048 characters.
enforceGlobalLimits_offByOne(req) ==
    IF req.urlLength >= 2048 THEN <<[status |-> 414, error |-> "URI Too Long"]>>
    ELSE IF req.headerCount > 100 THEN <<[status |-> 400, error |-> "Too Many Headers"]>>
    ELSE IF req.headerKeyLength > 256 \/ req.headerValueLength > 4096
         THEN <<[status |-> 400, error |-> "Header Too Large"]>>
    ELSE <<>>

\* enforceGlobalLimits: the response it sends (<<>> when it calls next)
enforceGlobalLimits(req) ==
    IF req.urlLength > 2048 THEN <<[status |-> 414, error |-> "URI Too Long"]>>
    ELSE IF req.headerCount > 100 THEN <<[status |-> 400, error |-> "Too Many Headers"]>>
    ELSE IF req.headerKeyLength > 256 \/ req.headerValueLength > 4096
         THEN <<[status |-> 400, error |-> "Header Too Large"]>>
    ELSE <<>>

\* ------------------------------------------------------------ RoutingLayer
\* config.routes (the entries for users, auth and orders) after initializeRoutes has applied
\* the defaults: stripPath is true unless the route says false.
Routes ==
    << [path |-> <<"/", "api", "/", "users">>, target |-> <<"http://localhost:3001">>,
        timeout |-> 5000, retries |-> 3, authRequired |-> TRUE, rateLimitTier |-> "basic",
        methods |-> {"GET", "POST", "PUT", "DELETE"}, stripPath |-> TRUE],
       [path |-> <<"/", "api", "/", "auth">>, target |-> <<"http://localhost:3002">>,
        timeout |-> 3000, retries |-> 2, authRequired |-> FALSE, rateLimitTier |-> "basic",
        methods |-> {"POST"}, stripPath |-> TRUE],
       [path |-> <<"/", "api", "/", "orders">>, target |-> <<"http://localhost:3004">>,
        timeout |-> 10000, retries |-> 2, authRequired |-> TRUE, rateLimitTier |-> "enterprise",
        methods |-> {"GET", "POST", "PUT", "PATCH"}, stripPath |-> TRUE] >>

\* p is a prefix of the token sequence s
IsPrefix(p, s) == Len(p) <= Len(s) /\ SubSeq(s, 1, Len(p)) = p

\* route.regexp.exec(path), the regexp compiled by pathToRegexp with
\* strict: false (one trailing "/" is accepted) and with the default end: true
\* (the pattern must match up to the end of the path).
regexpExec(pattern, path) == path = pattern \/ path = pattern \o <<"/">>

\* findRoute with the method test left out: the first route whose pattern
\* matches the path, whatever its methods.
findRoute_ignoresMethod(method, path) ==
    LET hits == {i \in DOMAIN Routes : regexpExec(Routes[i].path, path)}
    IN IF hits = {} THEN 0 ELSE CHOOSE i \in hits : \A j \in hits : i <= j

\* A compiled route: the route with the regexp pathToRegexp makes of its path
\* (the pattern itself, matched by regexpExec) and originalPath.
compiled(route) == [route |-> route, regexp |-> route.path, originalPath |-> route.path]

\* initializeRoutes: routes from config.routes and compiledRoutes from routes
initializeRoutes ==
    [routes |-> Routes, compiledRoutes |-> [i \in DOMAIN Routes |-> compiled(Routes[i])]]

\* findRoute with the loop run from the last entry to the first.
findRouteIn_lastMatch(compiledRoutes, method, path) ==
    LET hits == {i \in DOMAIN compiledRoutes :
                    /\ method \in compiledRoutes[i].route.methods
                    /\ regexpExec(compiledRoutes[i].regexp, path)}
    IN IF hits = {} THEN 0 ELSE CHOOSE i \in hits : \A j \in hits : i >= j

\* findRoute over a list of compiled routes: the index of the first entry
\* whose methods include the method and whose regexp matches the path; 0 for
\* null.
findRouteIn(compiledRoutes, method, path) ==
    LET hits == {i \in DOMAIN compiledRoutes :
                    /\ method \in compiledRoutes[i].route.methods
                    /\ regexpExec(compiledRoutes[i].regexp, path)}
    IN IF hits = {} THEN 0 ELSE CHOOSE i \in hits : \A j \in hits : i <= j

\* findRoute over the routes of the configuration
findRoute(method, path) == findRouteIn(initializeRoutes.compiledRoutes, method, path)

\* A route configuration as addRoute receives it.  An optional field is <<>>
\* when absent and <<v>> when given; target is <<>>, a URL, or a text that
\* `new URL` refuses.
isValidUrl(target) == target # <<"not a url">>

\* pathToRegexp throws for a pattern it cannot parse: an unbalanced "(".
pathToRegexpThrows(path) == \E i \in DOMAIN path : path[i] = "("

validMethods == {"GET", "POST", "PUT", "DELETE", "PATCH", "HEAD", "OPTIONS"}

\* validateRoute: the set of error messages
validateRoute(cfg) ==
    {e \in {"Route path is required", "Route target is required",
            "Route target must be a valid URL", "Route timeout must be a positive number",
            "Route retries must be a non-negative number", "Invalid HTTP methods"} :
        \/ e = "Route path is required" /\ cfg.path = <<>>
        \/ e = "Route target is required" /\ cfg.target = <<>>
        \/ e = "Route target must be a valid URL" /\ cfg.target # <<>> /\ ~isValidUrl(cfg.target)
        \/ e = "Route timeout must be a positive number"
              /\ cfg.timeout # <<>> /\ cfg.timeout[1] # 0 /\ cfg.timeout[1] <= 0
        \/ e = "Route retries must be a non-negative number"
              /\ cfg.retries # <<>> /\ cfg.retries[1] # 0 /\ cfg.retries[1] < 0
        \/ e = "Invalid HTTP methods"
              /\ cfg.methods # <<>> /\ cfg.methods[1] \ validMethods # {}}

\* addRoute, lines 618-628: the route with the defaults applied
\* (`x || d` takes d for an absent x and for 0).
routeOf(cfg) ==
    [path |-> cfg.path, target |-> cfg.target,
     timeout |-> IF cfg.timeout # <<>> /\ cfg.timeout[1] # 0 THEN cfg.timeout[1] ELSE 5000,
     retries |-> IF cfg.retries # <<>> /\ cfg.retries[1] # 0 THEN cfg.retries[1] ELSE 3,
     authRequired |-> TRUE, rateLimitTier |-> "basic",
     methods |-> IF cfg.methods # <<>> THEN cfg.methods[1] ELSE {"GET"},
     stripPath |-> TRUE]

\* Array.prototype.filter
RECURSIVE filterOut(_, _, _)
filterOut(list, field, path) ==
    IF list = <<>> THEN <<>>
    ELSE IF list[1][field] = path THEN filterOut(Tail(list), field, path)
    ELSE <<list[1]>> \o filterOut(Tail(list), field, path)

\* str.replace(/\/\*$/, ''): a trailing "/*" removed
dropTrailingWildcard(pattern) ==
    IF Len(pattern) >= 2 /\ SubSeq(pattern, Len(pattern) - 1, Len(pattern)) = <<"/", "*">>
    THEN SubSeq(pattern, 1, Len(pattern) - 2)
    ELSE pattern

\* str.replace(/\/$/, ''): a trailing "/" removed
dropTrailingSlash(str) ==
    IF Len(str) >= 1 /\ str[Len(str)] = "/" THEN SubSeq(str, 1, Len(str) - 1) ELSE str

\* new URLSearchParams(query).toString(): "k=v" joined by "&"
RECURSIVE queryString(_)
queryString(query) ==
    IF query = <<>> THEN <<>>
    ELSE <<query[1].k, "=", query[1].v>>
         \o (IF Len(query) > 1 THEN <<"&">> \o queryString(Tail(query)) ELSE <<>>)

\* buildTargetUrl
buildTargetUrl(route, path, query) ==
    LET prefix == dropTrailingWildcard(route.path)
        stripped == IF IsPrefix(prefix, path)
                    THEN SubSeq(path, Len(prefix) + 1, Len(path))
                    ELSE path
        targetPath0 == IF route.stripPath
                       THEN (IF stripped = <<>> THEN <<"/">> ELSE stripped)
                       ELSE path
        targetPath == IF targetPath0 # <<>> /\ targetPath0[1] = "/"
                      THEN targetPath0
                      ELSE <<"/">> \o targetPath0
        targetUrl == dropTrailingSlash(route.target) \o targetPath
    IN IF query # <<>> THEN targetUrl \o <<"?">> \o queryString(query) ELSE targetUrl

\* new URL(targetUrl) for the targets used here: <<>> when the constructor
\* throws, else the parts that extractServiceName reads.  The parser lowers
\* the case of the host name, and url.port is "" when the port is absent or
\* is the default port of the protocol (80 for http:, 443 for https:).
URL(target) ==
    LET at(protocol, hostname, port) ==
            <<[protocol |-> protocol, hostname |-> hostname, port |-> port]>>
    IN IF target = <<>> THEN <<>>
       ELSE CASE target[1] = "http://localhost:3001" -> at("http:", "localhost", "3001")
              [] target[1] = "http://localhost:3002" -> at("http:", "localhost", "3002")
              [] target[1] = "http://localhost:3004" -> at("http:", "localhost", "3004")
              [] target[1] = "http://localhost:3009" -> at("http:", "localhost", "3009")
              [] target[1] = "http://LOCALHOST:3001/v2" -> at("http:", "localhost", "3001")
              [] target[1] = "http://localhost" -> at("http:", "localhost", "")
              [] target[1] = "http://localhost:80" -> at("http:", "localhost", "")
              [] target[1] = "http://localhost:443" -> at("http:", "localhost", "443")
              [] target[1] = "https://localhost" -> at("https:", "localhost", "")
              [] OTHER -> <<>>

\* extractServiceName: `${url.hostname}:${url.port || (https ? 443 : 80)}`
\* of the route's target, 'unknown-service' when new URL throws
extractServiceName(target) ==
    IF URL(target) = <<>> THEN "unknown-service"
    ELSE LET url == URL(target)[1] IN
         url.hostname \o ":" \o
            (IF url.port # "" THEN url.port
             ELSE IF url.protocol = "https:" THEN "443" ELSE "80")

\* The service keys of the configured routes.
Upstreams == {extractServiceName(Routes[i].target) : i \in DOMAIN Routes}

\* --------------------------------------------------------------- AuthLayer
\* The tokens a request can present and what jwt.verify does with each: it
\* returns the decoded claims of a good token and throws an error, named as
\* below, for any other.
Tokens == {"good", "malformed", "expired", "premature", "broken"}

verifyErrorName(token) ==
    CASE token = "malformed" -> "JsonWebTokenError"
      [] token = "expired" -> "TokenExpiredError"
      [] token = "premature" -> "NotBeforeError"
      [] OTHER -> "Error"

\* extractUserContext of the claims of the good token {sub: "u1", tier: "gold"}
extractUserContext(token) == [id |-> "u1", tier |-> "gold"]

\* The Authorization headers of the requests: absent, "Bearer <token>",
\* the bare token, and "Bearer " followed by nothing.
AuthHeaders ==
    {<<>>, <<"Bearer ">>, <<"good">>} \cup {<<"Bearer ", t>> : t \in Tokens}

\* extractToken: <<>> for null, else <<token>>; the token may be the empty string
extractToken(authHeader) ==
    IF authHeader = <<>> THEN <<>>
    ELSE IF authHeader[1] = "Bearer "
         THEN <<IF Len(authHeader) > 1 THEN authHeader[2] ELSE "">>
         ELSE <<authHeader[1]>>

\* JavaScript !token for the value extractToken returns
noToken(tok) == tok = <<>> \/ tok[1] = ""

\* An error value: the class name, the `code` of a network error ("none"
\* when undefined), statusCode (0 when undefined), errorCode ("none" when
\* undefined) and the status of error.response (<<>> when there is none).
Thrown(name, code, statusCode, errorCode, response) ==
    [name |-> name, code |-> code, statusCode |-> statusCode, errorCode |-> errorCode,
     response |-> response]

\* ErrorHandler.createError / new GatewayError
GatewayError(statusCode, errorCode) == Thrown("GatewayError", "none", statusCode, errorCode, <<>>)

\* ErrorHandler.handleAuthError that reports an expired token as an invalid one.
handleAuthError_expiredAsInvalid(name) ==
    CASE name \in {"TokenExpiredError", "JsonWebTokenError"} -> GatewayError(401, "INVALID_TOKEN")
      [] name = "NotBeforeError" -> GatewayError(401, "TOKEN_NOT_ACTIVE")
      [] OTHER -> GatewayError(401, "AUTH_FAILED")

\* ErrorHandler.handleAuthError, by the name of the error jwt.verify threw
handleAuthError(name) ==
    CASE name = "TokenExpiredError" -> GatewayError(401, "TOKEN_EXPIRED")
      [] name = "JsonWebTokenError" -> GatewayError(401, "INVALID_TOKEN")
      [] name = "NotBeforeError" -> GatewayError(401, "TOKEN_NOT_ACTIVE")
      [] OTHER -> GatewayError(401, "AUTH_FAILED")

\* optionalAuth that lets a verification failure surface, as requireAuth does.
optionalAuth_surfacesError(authHeader) ==
    LET tok == extractToken(authHeader) IN
    IF noToken(tok) THEN [user |-> <<>>, error |-> <<>>]
    ELSE IF tok[1] = "good"
         THEN [user |-> <<extractUserContext(tok[1])>>, error |-> <<>>]
         ELSE [user |-> <<>>, error |-> <<handleAuthError(verifyErrorName(tok[1]))>>]

\* optionalAuth: the user context attached (<<>> for null) and the error
\* passed to next (<<>> for none)
optionalAuth(authHeader) ==
    LET tok == extractToken(authHeader) IN
    IF noToken(tok) THEN [user |-> <<>>, error |-> <<>>]
    ELSE IF tok[1] = "good"
         THEN [user |-> <<extractUserContext(tok[1])>>, error |-> <<>>]
         ELSE [user |-> <<>>, error |-> <<>>]

\* requireAuth
requireAuth(authHeader) ==
    LET tok == extractToken(authHeader) IN
    IF noToken(tok) THEN [user |-> <<>>, error |-> <<GatewayError(401, "MISSING_TOKEN")>>]
    ELSE IF tok[1] = "good"
         THEN [user |-> <<extractUserContext(tok[1])>>, error |-> <<>>]
         ELSE [user |-> <<>>, error |-> <<handleAuthError(verifyErrorName(tok[1]))>>]

\* ------------------------------------------------------------ ErrorHandler
\* mapUpstreamError
mapUpstreamError(error) ==
    IF error.code = "ECONNREFUSED" THEN GatewayError(503, "SERVICE_UNAVAILABLE")
    ELSE IF error.code = "ETIMEDOUT" \/ error.name = "TimeoutError"
         THEN GatewayError(504, "GATEWAY_TIMEOUT")
    ELSE IF error.response # <<>>
         THEN GatewayError(IF error.response[1] >= 500 THEN 502 ELSE error.response[1],
                           "UPSTREAM_ERROR")
    ELSE GatewayError(502, "BAD_GATEWAY")

\* ErrorHandler.middleware: the response written for an error passed to next
errorResponse(error, requestId) ==
    IF error.name = "GatewayError"
    THEN [status |-> error.statusCode, error |-> error.errorCode, requestId |-> requestId]
    ELSE [status |-> IF error.statusCode # 0 THEN error.statusCode ELSE 500,
          error |-> "INTERNAL_SERVER_ERROR", requestId |-> requestId]

\* ------------------------------------------------- ApiGateway.setupMiddleware
\* The request pipeline, in the order of the app.use calls.
Pipeline == <<"resolve", "auth", "limit", "dispatch">>

StageIndex(stage) == CHOOSE i \in DOMAIN Pipeline : Pipeline[i] = stage

\* next(err) that runs the following middleware although an error was passed.
next_continuesOnError(stage, failed) ==
    IF StageIndex(stage) < Len(Pipeline) THEN Pipeline[StageIndex(stage) + 1] ELSE "error"

\* Express next(): with an error the remaining middleware is skipped and the
\* error handler runs; without one the following middleware runs.
next(stage, failed) ==
    IF failed THEN "error"
    ELSE IF StageIndex(stage) < Len(Pipeline) THEN Pipeline[StageIndex(stage) + 1]
    ELSE "error"

\* ---------------------------------------------------- ForwardingLayer, requests
\* Outcomes of one upstream request: an HTTP response with a status, or a
\* network failure with the code axios reports.
UpstreamStatuses == {200, 404, 500}
UpstreamFailures == {"ECONNREFUSED", "ECONNABORTED", "ENOTFOUND"}

\* validateStatus of axios' default: only 2xx resolves the request promise.
validateStatus_axiosDefault(status) == status >= 200 /\ status < 300

\* validateStatus: null in createAxiosInstance and makeRequest: every status
\* resolves the request promise.
validateStatus(status) == TRUE

\* The URL axios requests for requestConfig.url with requestConfig.params:
\* the serialized params are appended after "?", or after "&" when the url
\* already has a query.
axiosUrl(url, params) ==
    IF params = <<>> THEN url
    ELSE url \o (IF \E i \in DOMAIN url : url[i] = "?" THEN <<"&">> ELSE <<"?">>)
             \o queryString(params)

\* makeRequest: the error it throws for a network failure with the given code
makeRequestError(code) ==
    IF code = "ECONNABORTED" THEN GatewayError(504, "GATEWAY_TIMEOUT")
    ELSE Thrown("AxiosError", code, 0, "none", <<>>)

\* The error axios throws for a response whose status validateStatus refuses.
statusError(status) == Thrown("AxiosError", "ERR_BAD_RESPONSE", 0, "none", <<status>>)

\* ErrorHandler.handleCircuitBreakerError, thrown by execute
circuitBreakerOpenError == GatewayError(503, "CIRCUIT_BREAKER_OPEN")

\* `startTime` declared ahead of the try block, in scope in the catch block.
startTimeDeclaredBeforeTry == TRUE

\* forwardRequest declares `const startTime` inside the try block (line 182)
\* and reads it in the catch block (line 206), where it is not in scope.
startTimeInCatchScope == FALSE

\* Statuses of an upstream response after which forwardRequest breaks the loop.
terminalStatuses == {400, 401, 403, 404, 422}

\* forwardRequest, the catch block for the error of attempt number `attempt`
\* (0-based): either the loop goes on to the next attempt, or an error
\* leaves forwardRequest.
forwardCatch(error, attempt, retries) ==
    IF ~startTimeInCatchScope
    THEN [retry |-> FALSE, thrown |-> <<Thrown("ReferenceError", "none", 0, "none", <<>>)>>]
    ELSE IF \/ error.errorCode = "CIRCUIT_BREAKER_OPEN"
            \/ (error.response # <<>> /\ error.response[1] \in terminalStatuses)
         THEN [retry |-> FALSE, thrown |-> <<mapUpstreamError(error)>>]
    ELSE IF attempt + 1 <= retries
         THEN [retry |-> TRUE, thrown |-> <<>>]
    ELSE [retry |-> FALSE, thrown |-> <<mapUpstreamError(error)>>]

\* forwardResponse: the upstream status is passed on and X-Request-ID is set
forwardResponse(status, requestId) ==
    [status |-> status, error |-> "none", requestId |-> requestId]

\* ------------------------------------------------------- a request in the pipeline
\* What the entry layer reads of a request besides method, path, query and
\* Authorization: the X-Request-ID header (<<>> when absent), the kind of body
\* the body parsers meet, the length of req.url, the number of headers and
\* the greatest length of a header name and of a header value.
PlainEntry ==
    [xRequestId |-> <<>>, body |-> "none", urlLength |-> 10, headerCount |-> 5,
     headerKeyLength |-> 13, headerValueLength |-> 20]

\* A request: its method, path, query and Authorization header, and what the
\* entry layer reads.
Request(c, e) ==
    [method |-> c.method, path |-> c.path, query |-> c.query,
     authorization |-> c.authorization,
     xRequestId |-> e.xRequestId, body |-> e.body, urlLength |-> e.urlLength,
     headerCount |-> e.headerCount, headerKeyLength |-> e.headerKeyLength,
     headerValueLength |-> e.headerValueLength]

NoRequest ==
    Request([method |-> "none", path |-> <<>>, query |-> <<>>, authorization |-> <<>>],
            PlainEntry)
NoResponse == [status |-> 0, error |-> "none", requestId |-> "none"]

IdleGw ==
    [pc |-> "idle", req |-> NoRequest, route |-> 0, targetUrl |-> <<>>, user |-> <<>>,
     attempt |-> 0, sent |-> <<>>, sentAt |-> Null, response |-> NoResponse, ran |-> <<>>,
     aborted |-> FALSE, atSignal |-> FALSE]

\* A slot shows the response of its request in the step that writes it and is
\* idle again after the next step.
SettledGw(g) == [r \in DOMAIN g |-> IF g[r].pc = "done" THEN IdleGw ELSE g[r]]

\* The request has been answered with the response for `error`.
Answered(q, error) ==
    [q EXCEPT !.pc = "done", !.response = errorResponse(error, q.response.requestId)]

\* req.context of a request in the pipeline, as the limiter reads it
contextOf(q) ==
    [user |-> q.user, clientIp |-> "10.0.0.1", routeTier |-> Routes[q.route].rateLimitTier]

\* RateLimitLayer.middleware, lines 396-405, for the request of slot r whose
\* limiter position has become o: next(error) answers 429, next() hands the
\* request to the dispatcher.  A slot that is not in the pipeline is left alone.
limiterContinuation(r, o) ==
    IF gw[r].pc \notin {"limit", "limiting"} THEN SettledGw(gw)
    ELSE [SettledGw(gw) EXCEPT ![r] =
            LET q == [gw[r] EXCEPT !.ran = IF gw[r].pc = "limit" THEN Append(@, "limit") ELSE @]
            IN IF o.pc \in {"passed", "rejected"}
               THEN LET n == next("limit", o.pc = "rejected")
                    IN IF n = "error"
                       THEN Answered(q, GatewayError(o.error[1].statusCode, o.error[1].errorCode))
                       ELSE [q EXCEPT !.pc = n]
               ELSE [q EXCEPT !.pc = "limiting"]]

\* The process after ApiGateway.start: markReady has run, the server
\* listens, the store client is open and no shutdown signal has come.
\* drainUntil is the time the timer of the shutdown wait fires.
Started ==
    [isShuttingDown |-> FALSE, status |-> "ready", listening |-> TRUE, clientOpen |-> TRUE,
     signals |-> 0, drainUntil |-> Null, exited |-> FALSE]

Init ==
    /\ now = 0
    /\ failureThreshold \in 1..MaxThreshold
    /\ circuitBreakers = [s \in {} |-> NewBreaker]
    /\ calls = [c \in Callers |-> IdleCall]
    /\ ret = <<>>
    /\ streak = [s \in Upstreams |-> 0]
    /\ hoSuccesses = [s \in Upstreams |-> 0]
    /\ rateLimitTiers \in [ConfiguredTiers -> [requests : 1..MaxLimit, windowMs : {tierWindowMs}]]
    /\ defaultTier \in [requests : 1..MaxLimit, windowMs : {defaultWindowMs}]
    /\ isConnected = FALSE
    /\ store = [k \in {} |-> [count |-> 0, expireAt |-> 0]]
    /\ reqs = [r \in Reqs |-> IdleReq]
    /\ allowedIn = [k \in {} |-> 0]
    /\ gw = [r \in Reqs |-> IdleGw]
    /\ proc = Started
    /\ routing = initializeRoutes

\* The clock advances.
Tick(d) ==
    /\ now + d <= MaxTime
    /\ now' = now + d
    /\ store' = live(store, now')
    /\ ret' = <<>>
    /\ reqs' = Settled(reqs)
    /\ allowedIn' = Current(allowedIn, reqs, now')
    /\ gw' = SettledGw(gw)
    /\ UNCHANGED <<breakerVars, rateLimitTiers, defaultTier, isConnected, processVars, routingVars>>

\* forwardRequest looks the breaker up and calls circuitBreaker.execute(requestFn):
\* either the call is rejected (CIRCUIT_BREAKER_OPEN is thrown) or requestFn
\* is invoked and the upstream request is in flight.
CallExecute(c, s) ==
    /\ calls[c].pc # "inflight"
    /\ LET table == getCircuitBreaker(circuitBreakers, s)
           r == execute(table[s], now)
       IN /\ circuitBreakers' = [table EXCEPT ![s] = r.breaker]
          /\ calls' = [calls EXCEPT ![c] =
                          [pc |-> IF r.admitted THEN "inflight" ELSE "rejected", svc |-> s]]
    /\ ret' = <<>>
    /\ UNCHANGED <<now, failureThreshold, streak, hoSuccesses, limiterVars, gatewayVars, processVars, routingVars>>

\* requestFn resolves: execute() runs onSuccess.
CallSucceeds(c) ==
    /\ calls[c].pc = "inflight"
    /\ LET s == calls[c].svc IN
       /\ circuitBreakers' = [circuitBreakers EXCEPT ![s] = onSuccess(@)]
       /\ streak' = [streak EXCEPT ![s] = 0]
       /\ hoSuccesses' = IF circuitBreakers[s].state = HALF_OPEN
                            /\ hoSuccesses[s] + 1 < 3
                         THEN [hoSuccesses EXCEPT ![s] = @ + 1]
                         ELSE [hoSuccesses EXCEPT ![s] = 0]
    /\ calls' = [calls EXCEPT ![c] = IdleCall]
    /\ ret' = <<>>
    /\ UNCHANGED <<now, failureThreshold, limiterVars, gatewayVars, processVars, routingVars>>

\* requestFn throws: execute() runs onFailure and rethrows.
CallFails(c) ==
    /\ calls[c].pc = "inflight"
    /\ LET s == calls[c].svc IN
       /\ circuitBreakers' = [circuitBreakers EXCEPT ![s] = onFailure(@, now, failureThreshold)]
       /\ streak' = [streak EXCEPT ![s] = @ + 1]
       /\ hoSuccesses' = [hoSuccesses EXCEPT ![s] = 0]
    /\ calls' = [calls EXCEPT ![c] = IdleCall]
    /\ ret' = <<>>
    /\ UNCHANGED <<now, failureThreshold, limiterVars, gatewayVars, processVars, routingVars>>

\* ForwardingLayer.resetCircuitBreaker(serviceName)
resetCircuitBreaker(s) ==
    /\ IF s \in DOMAIN circuitBreakers
       THEN /\ circuitBreakers' = [circuitBreakers EXCEPT ![s] = reset(@)]
            /\ ret' = <<TRUE>>
            /\ streak' = [streak EXCEPT ![s] = 0]
            /\ hoSuccesses' = [hoSuccesses EXCEPT ![s] = 0]
       ELSE /\ ret' = <<FALSE>>
            /\ UNCHANGED <<circuitBreakers, streak, hoSuccesses>>
    /\ UNCHANGED <<now, failureThreshold, calls, limiterVars, gatewayVars, processVars, routingVars>>


\* ------------------------------------------------- RateLimitLayer actions
\* The rate-limit middleware starts for a request: checkRateLimit either
\* fails open at once (not connected) or samples the time and sends GET.
RateLimitBegin(r, ctx) ==
    /\ Finished(reqs[r])
    /\ LET tierName == userTierOf(ctx)
           cfg == getTierConfig(rateLimitTiers, defaultTier, tierName)
           q == [IdleReq EXCEPT !.ctx = <<ctx>>, !.tier = tierName, !.t0 = now,
                                !.windowStart = windowStartOf(now, cfg.windowMs)]
       IN reqs' = [Settled(reqs) EXCEPT ![r] =
                      IF ~isConnected
                      THEN middlewareOutcome([q EXCEPT !.infra = TRUE], notConnectedResult(now), cfg)
                      ELSE [q EXCEPT !.pc = "get"]]
    /\ ret' = <<>>
    /\ gw' = limiterContinuation(r, reqs'[r])
    /\ UNCHANGED <<now, breakerVars, rateLimitTiers, defaultTier, isConnected, store, allowedIn, processVars, routingVars>>

\* The reply to GET arrives: deny when the limit is reached, else send INCR and EXPIRE.
GetReply(r) ==
    /\ reqs[r].pc = "get"
    /\ LET q == reqs[r]
           cfg == cfgOf(q)
           currentCount == parseCount(storeGet(store, windowKeyOf(q)))
       IN reqs' = [Settled(reqs) EXCEPT ![r] =
                      IF limitReached(currentCount, cfg)
                      THEN middlewareOutcome(q, deniedResult(q.windowStart, cfg, q.tier), cfg)
                      ELSE [q EXCEPT !.pc = "incr", !.currentCount = currentCount]]
    /\ ret' = <<>>
    /\ gw' = limiterContinuation(r, reqs'[r])
    /\ UNCHANGED <<now, breakerVars, rateLimitTiers, defaultTier, isConnected, store, allowedIn, processVars, routingVars>>

\* GET fails: the catch block allows the request.
GetError(r) ==
    /\ reqs[r].pc = "get"
    /\ LET q == reqs[r] IN
       reqs' = [Settled(reqs) EXCEPT ![r] =
                   middlewareOutcome([q EXCEPT !.infra = TRUE], failOpenResult(q.t0, cfgOf(q)), cfgOf(q))]
    /\ ret' = <<>>
    /\ gw' = limiterContinuation(r, reqs'[r])
    /\ UNCHANGED <<now, breakerVars, rateLimitTiers, defaultTier, isConnected, store, allowedIn, processVars, routingVars>>

\* The reply to INCR and EXPIRE arrives: the request is allowed.
IncrReply(r) ==
    /\ reqs[r].pc = "incr"
    /\ LET q == reqs[r]
           cfg == cfgOf(q)
       IN /\ store' = storeIncrExpire(store, windowKeyOf(q), CeilDiv1000(cfg.windowMs), now)
          /\ reqs' = [Settled(reqs) EXCEPT ![r] =
                         middlewareOutcome(q, allowedResult(q.windowStart, cfg, q.tier, q.currentCount), cfg)]
          /\ allowedIn' = CountAllowed(q)
    /\ ret' = <<>>
    /\ gw' = limiterContinuation(r, reqs'[r])
    /\ UNCHANGED <<now, breakerVars, rateLimitTiers, defaultTier, isConnected, processVars, routingVars>>

\* INCR and EXPIRE fail (the store may or may not have executed them): the
\* catch block allows the request.
IncrError(r) ==
    /\ reqs[r].pc = "incr"
    /\ LET q == reqs[r]
           cfg == cfgOf(q)
       IN /\ \E executed \in BOOLEAN :
                store' = IF executed
                         THEN storeIncrExpire(store, windowKeyOf(q), CeilDiv1000(cfg.windowMs), now)
                         ELSE store
          /\ reqs' = [Settled(reqs) EXCEPT ![r] =
                         middlewareOutcome([q EXCEPT !.infra = TRUE], failOpenResult(q.t0, cfg), cfg)]
    /\ ret' = <<>>
    /\ gw' = limiterContinuation(r, reqs'[r])
    /\ UNCHANGED <<now, breakerVars, rateLimitTiers, defaultTier, isConnected, allowedIn, processVars, routingVars>>

\* redisClient 'connect' event
RedisConnect ==
    /\ ~isConnected
    /\ isConnected' = TRUE
    /\ ret' = <<>>
    /\ reqs' = Settled(reqs)
    /\ gw' = SettledGw(gw)
    /\ UNCHANGED <<now, breakerVars, rateLimitTiers, defaultTier, store, allowedIn, processVars, routingVars>>

\* redisClient 'error' or 'disconnect' event
RedisError ==
    /\ isConnected
    /\ isConnected' = FALSE
    /\ ret' = <<>>
    /\ reqs' = Settled(reqs)
    /\ gw' = SettledGw(gw)
    /\ UNCHANGED <<now, breakerVars, rateLimitTiers, defaultTier, store, allowedIn, processVars, routingVars>>

\* ------------------------------------------------------- pipeline actions
\* The requests that arrive.
Methods == {"GET", "POST", "PATCH", "TRACE"}
Paths == {<<"/", "api", "/", "users">>, <<"/", "api", "/", "users", "/", "y">>,
          <<"/", "api", "/", "auth">>}
Queries == {<<>>, <<[k |-> "q", v |-> "1"]>>}
\* Every verb and path without credentials or with a valid bearer token,
\* GET /api/users with every query and every Authorization header, POST
\* /api/auth with every Authorization header, and GET /api/users/y with every
\* query.
CoreRequests ==
    [method : Methods, path : Paths, query : {<<>>},
     authorization : {<<>>, <<"Bearer ", "good">>}]
    \cup [method : {"GET"}, path : {<<"/", "api", "/", "users">>}, query : Queries,
          authorization : AuthHeaders]
    \cup [method : {"POST"}, path : {<<"/", "api", "/", "auth">>}, query : {<<>>},
          authorization : AuthHeaders]
    \cup [method : {"GET"}, path : {<<"/", "api", "/", "users", "/", "y">>},
          query : Queries, authorization : {<<"Bearer ", "good">>}]

\* The requests of the pipeline specifications: nothing for the entry layer
\* to object to, no X-Request-ID supplied.
Requests == {Request(c, PlainEntry) : c \in CoreRequests}

\* The response the entry layer sends for the request; <<>> when the request
\* is passed on.
entryRejection(req) ==
    IF validateMethod(req) # <<>> THEN validateMethod(req) ELSE enforceGlobalLimits(req)

\* ------------------- HealthCheck.setupRoutes and ApiGateway.setupAdminRoutes
\* The handler express runs for a method and path, among the routes mounted
\* ahead of the routing middleware; "none" when no such route is registered.
managementEndpoint(method, path) ==
    LET at(p) == regexpExec(p, path)
    IN CASE method = "GET" /\ at(<<"/", "health", "/", "live">>) -> "liveness"
         [] method = "GET" /\ at(<<"/", "health", "/", "ready">>) -> "readiness"
         [] method = "GET" /\ at(<<"/", "health">>) -> "health"
         [] method = "GET" /\ at(<<"/", "ping">>) -> "ping"
         [] method = "GET" /\ at(<<"/", "version">>) -> "version"
         [] method = "GET" /\ at(<<"/", "admin", "/", "metrics">>) -> "metrics"
         [] method = "GET" /\ at(<<"/", "admin", "/", "circuit-breakers">>) -> "breakerStates"
         [] method = "GET" /\ at(<<"/", "admin", "/", "routes">>) -> "routes"
         [] method = "POST" /\ Len(path) = 8
              /\ SubSeq(path, 1, 5) = <<"/", "admin", "/", "circuit-breakers", "/">>
              /\ SubSeq(path, 7, 8) = <<"/", "reset">> -> "breakerReset"
         [] method = "GET" /\ Len(path) = 8
              /\ SubSeq(path, 1, 5) = <<"/", "admin", "/", "rate-limits", "/">>
              /\ path[7] = ":" -> "rateLimitStatus"
         [] method = "POST" /\ Len(path) = 10
              /\ SubSeq(path, 1, 5) = <<"/", "admin", "/", "rate-limits", "/">>
              /\ path[7] = ":" /\ SubSeq(path, 9, 10) = <<"/", "reset">> -> "rateLimitReset"
         [] OTHER -> "none"

\* req.query.tier || 'basic'
tierParam(query) ==
    IF \E i \in DOMAIN query : query[i].k = "tier"
    THEN query[CHOOSE i \in DOMAIN query : query[i].k = "tier"].v
    ELSE "basic"

\* `rate_limit:${tier}:${identifier}` for req.params.identifier, whose text
\* "kind:id" is the three path tokens 6..8
identifierKey(req) == <<tierParam(req.query), <<req.path[6], req.path[8]>>>>

\* resetRateLimit: KEYS `${key}:*` and DEL of what it returns
resetRateLimit(st, key) == [k \in {j \in DOMAIN st : j[1] # key} |-> st[k]]

\* The history after the keys of an identity have been deleted: its windows
\* are counted afresh.
forget(h, key) ==
    [k \in {j \in DOMAIN h : ~(j[1] = key[1] /\ j[2] = key[2][2] /\ j[3] = (key[2][1] = "user"))}
        |-> h[k]]

\* The counter store after a handler that also deletes the identity's keys
\* when its status is read.
managementStore_resetOnStatus(endpoint, st, key, ok) ==
    IF endpoint \in {"rateLimitReset", "rateLimitStatus"} /\ ok THEN resetRateLimit(st, key) ELSE st

\* The counter store after the handler of an endpoint; ok: the store is
\* connected and answers the handler's commands.
managementStore(endpoint, st, key, ok) ==
    IF endpoint = "rateLimitReset" /\ ok THEN resetRateLimit(st, key) ELSE st

\* The status a handler answers.  checkDependencies has one critical
\* dependency, the counter store; readiness and health answer 200 exactly when
\* it is healthy.  The two reset handlers answer 404 for an unknown service
\* and 500 when the store call throws; getRateLimitStatus returns an error
\* object (status 200) when not connected and throws when GET fails.
managementStatus(endpoint, req, breakers, connected, pong) ==
    CASE endpoint \in {"readiness", "health"} -> IF connected /\ pong THEN 200 ELSE 503
      [] endpoint = "breakerReset" -> IF req.path[6] \in DOMAIN breakers THEN 200 ELSE 404
      [] endpoint = "rateLimitReset" -> IF connected /\ pong THEN 200 ELSE 500
      [] endpoint = "rateLimitStatus" -> IF connected /\ ~pong THEN 500 ELSE 200
      [] OTHER -> 200

\* A request arrives.  The body parsers pass an unparsable or oversize body
\* to the error handler; otherwise normalizeRequest sets X-Request-ID on the
\* response (the slot's name stands for a generated id), validateMethod and
\* enforceGlobalLimits answer what they reject, and the routing middleware
\* resolves the route and builds the target URL or passes ROUTE_NOT_FOUND to
\* next.  A request that the entry layer admits to a health or admin route
\* is handled by GwManagement.
GwArrive(r, req) ==
    /\ gw[r].pc \in {"idle", "done"}
    /\ \/ bodyParser(req.body) # <<>>
       \/ entryRejection(req) # <<>>
       \/ managementEndpoint(req.method, req.path) = "none"
    /\ LET q0 == [IdleGw EXCEPT !.req = req, !.response.requestId = normalizeRequest(req, r)]
       IN gw' = [SettledGw(gw) EXCEPT ![r] =
                    IF bodyParser(req.body) # <<>>
                    THEN Answered([IdleGw EXCEPT !.req = req], bodyParser(req.body)[1])
                    ELSE IF entryRejection(req) # <<>>
                    THEN [q0 EXCEPT !.pc = "done",
                                    !.response.status = entryRejection(req)[1].status,
                                    !.response.error = entryRejection(req)[1].error]
                    ELSE LET i == findRoute(req.method, req.path)
                             q1 == [q0 EXCEPT !.ran = <<"resolve">>]
                             n == next("resolve", i = 0)
                         IN IF n = "error"
                            THEN Answered(q1, GatewayError(404, "ROUTE_NOT_FOUND"))
                            ELSE [q1 EXCEPT !.pc = n, !.route = i,
                                            !.targetUrl = IF i # 0
                                                          THEN buildTargetUrl(Routes[i], req.path, req.query)
                                                          ELSE <<>>]]
    /\ reqs' = Settled(reqs)
    /\ ret' = <<>>
    /\ UNCHANGED <<now, breakerVars, rateLimitTiers, defaultTier, isConnected, store, allowedIn, processVars, routingVars>>

\* createConditionalAuthMiddleware: requireAuth or optionalAuth by the
\* route's authRequired.  (Without a route context the remaining middleware
\* passes the request on and the forwarding middleware answers 500.)
GwAuth(r) ==
    /\ gw[r].pc = "auth"
    /\ LET q == [gw[r] EXCEPT !.ran = Append(@, "auth")]
       IN gw' = [SettledGw(gw) EXCEPT ![r] =
                    IF q.route = 0
                    THEN Answered(gw[r], GatewayError(500, "MISSING_ROUTE_CONTEXT"))
                    ELSE LET a == IF Routes[q.route].authRequired
                                  THEN requireAuth(q.req.authorization)
                                  ELSE optionalAuth(q.req.authorization)
                             n == next("auth", a.error # <<>>)
                         IN IF n = "error"
                            THEN Answered(q, a.error[1])
                            ELSE [q EXCEPT !.pc = n, !.user = a.user]]
    /\ reqs' = Settled(reqs)
    /\ ret' = <<>>
    /\ UNCHANGED <<now, breakerVars, rateLimitTiers, defaultTier, isConnected, store, allowedIn, processVars, routingVars>>

\* createConditionalRateLimitMiddleware: the limiter runs for the request
\* with the tier of its route.
GwRateLimit(r) ==
    /\ gw[r].pc = "limit"
    /\ RateLimitBegin(r, contextOf(gw[r]))

\* The breaker's bookkeeping when a wrapped call of service s resolves or throws.
BreakerSuccess(s) ==
    /\ circuitBreakers' = [circuitBreakers EXCEPT ![s] = onSuccess(@)]
    /\ streak' = [streak EXCEPT ![s] = 0]
    /\ hoSuccesses' = IF circuitBreakers[s].state = HALF_OPEN /\ hoSuccesses[s] + 1 < 3
                      THEN [hoSuccesses EXCEPT ![s] = @ + 1]
                      ELSE [hoSuccesses EXCEPT ![s] = 0]

BreakerFailure(s) ==
    /\ circuitBreakers' = [circuitBreakers EXCEPT ![s] = onFailure(@, now, failureThreshold)]
    /\ streak' = [streak EXCEPT ![s] = @ + 1]
    /\ hoSuccesses' = [hoSuccesses EXCEPT ![s] = 0]

\* The request after the catch block of forwardRequest has handled `error`.
Caught(q, error) ==
    LET c == forwardCatch(error, q.attempt, Routes[q.route].retries)
    IN IF c.retry
       THEN [q EXCEPT !.pc = "backoff", !.attempt = @ + 1]
       ELSE Answered(q, c.thrown[1])

\* forwardRequest starts an attempt (the first one, or the next one after the
\* backoff delay): circuitBreaker.execute either rejects, which the catch
\* block handles, or calls makeRequest, which sends the upstream request.
GwAttempt(r) ==
    /\ gw[r].pc \in {"dispatch", "backoff"}
    /\ LET q == [gw[r] EXCEPT !.ran = IF gw[r].pc = "dispatch" THEN Append(@, "dispatch") ELSE @]
           s == extractServiceName(Routes[q.route].target)
           table == getCircuitBreaker(circuitBreakers, s)
           e == execute(table[s], now)
       IN /\ circuitBreakers' = [table EXCEPT ![s] = e.breaker]
          /\ gw' = [SettledGw(gw) EXCEPT ![r] =
                       IF e.admitted
                       THEN [q EXCEPT !.pc = "inflight", !.sentAt = now,
                                      !.sent = Append(@, [method |-> q.req.method,
                                                          url |-> axiosUrl(q.targetUrl, q.req.query)])]
                       ELSE Caught(q, circuitBreakerOpenError)]
    /\ reqs' = Settled(reqs)
    /\ ret' = <<>>
    /\ UNCHANGED <<now, failureThreshold, calls, streak, hoSuccesses,
                   rateLimitTiers, defaultTier, isConnected, store, allowedIn, processVars, routingVars>>

\* The upstream answers with an HTTP status: the request promise resolves
\* when validateStatus accepts the status, and then execute runs onSuccess
\* and forwardResponse passes the response on; otherwise axios throws.
GwUpstreamResponds(r, status) ==
    /\ gw[r].pc = "inflight"
    /\ LET q == gw[r]
           s == extractServiceName(Routes[q.route].target)
       IN IF validateStatus(status)
          THEN /\ BreakerSuccess(s)
               /\ gw' = [SettledGw(gw) EXCEPT ![r] =
                            [q EXCEPT !.pc = "done",
                                      !.response = forwardResponse(status, q.response.requestId)]]
          ELSE /\ BreakerFailure(s)
               /\ gw' = [SettledGw(gw) EXCEPT ![r] = Caught(q, statusError(status))]
    /\ reqs' = Settled(reqs)
    /\ ret' = <<>>
    /\ UNCHANGED <<now, failureThreshold, calls, rateLimitTiers, defaultTier, isConnected,
                   store, allowedIn, processVars, routingVars>>

\* The upstream request fails on the network: makeRequest throws, execute
\* runs onFailure and rethrows, and the catch block of forwardRequest runs.
GwUpstreamFails(r, code) ==
    /\ gw[r].pc = "inflight"
    /\ LET q == gw[r]
           s == extractServiceName(Routes[q.route].target)
       IN /\ BreakerFailure(s)
          /\ gw' = [SettledGw(gw) EXCEPT ![r] = Caught(q, makeRequestError(code))]
    /\ reqs' = Settled(reqs)
    /\ ret' = <<>>
    /\ UNCHANGED <<now, failureThreshold, calls, rateLimitTiers, defaultTier, isConnected,
                   store, allowedIn, processVars, routingVars>>

\* The client closes its connection while its request is in forwardRequest,
\* waiting for the upstream response or for the retry delay.  Nothing in the
\* forwarding layer listens for 'close' or 'aborted' and the axios request
\* has no cancellation signal: the request stays where it is.
GwClientAbort(r) ==
    /\ gw[r].pc \in {"inflight", "backoff"}
    /\ ~gw[r].aborted
    /\ gw' = [SettledGw(gw) EXCEPT ![r].aborted = TRUE]
    /\ reqs' = Settled(reqs)
    /\ ret' = <<>>
    /\ UNCHANGED <<now, breakerVars, rateLimitTiers, defaultTier, isConnected, store, allowedIn, processVars, routingVars>>

\* No request is in the pipeline.
Quiet == \A r \in Reqs : gw[r].pc \in {"idle", "done"}

\* A request arrives when no other is in the pipeline.
SeqArrive(r, req) ==
    /\ Quiet
    /\ GwArrive(r, req)

NextGateway ==
    \/ \E r \in Reqs, req \in Requests : SeqArrive(r, req)
    \/ \E r \in Reqs : GwAuth(r)
    \/ \E r \in Reqs : GwRateLimit(r)
    \/ \E r \in Reqs : GetReply(r)
    \/ \E r \in Reqs : IncrReply(r)
    \/ RedisConnect
    \/ \E r \in Reqs : GwAttempt(r)
    \/ \E r \in Reqs, status \in UpstreamStatuses : GwUpstreamResponds(r, status)
    \/ \E r \in Reqs, code \in UpstreamFailures : GwUpstreamFails(r, code)

\* The whole pipeline within one instant of the clock: requests arrive one
\* after another and pass through route resolution, authentication, the
\* limiter and the dispatcher.
InitGateway ==
    /\ Init
    /\ failureThreshold = 1
    /\ defaultTier.requests = 1
    /\ \A t \in ConfiguredTiers : rateLimitTiers[t].requests = 1
SpecGateway == InitGateway /\ [][NextGateway]_vars

\* ------------------------------------------- health and admin endpoints
\* A request arrives that the entry layer admits and that matches a health
\* or admin route: its handler answers it.  pong: the counter store answers
\* the handler's command (PING, KEYS and DEL, or GET).
GwManagement(r, req, pong) ==
    /\ gw[r].pc \in {"idle", "done"}
    /\ bodyParser(req.body) = <<>>
    /\ entryRejection(req) = <<>>
    /\ managementEndpoint(req.method, req.path) # "none"
    /\ LET endpoint == managementEndpoint(req.method, req.path)
           status == managementStatus(endpoint, req, circuitBreakers, isConnected, pong)
           s == req.path[6]
           hit == endpoint = "breakerReset" /\ s \in DOMAIN circuitBreakers
       IN /\ gw' = [SettledGw(gw) EXCEPT ![r] =
                       [IdleGw EXCEPT !.pc = "done", !.req = req,
                                      !.response = [status |-> status, error |-> "none",
                                                    requestId |-> normalizeRequest(req, r)]]]
          /\ circuitBreakers' = IF hit THEN [circuitBreakers EXCEPT ![s] = reset(@)]
                                ELSE circuitBreakers
          /\ streak' = IF hit THEN [streak EXCEPT ![s] = 0] ELSE streak
          /\ hoSuccesses' = IF hit THEN [hoSuccesses EXCEPT ![s] = 0] ELSE hoSuccesses
          /\ store' = managementStore(endpoint, store,
                                      IF endpoint \in {"rateLimitReset", "rateLimitStatus"}
                                      THEN identifierKey(req) ELSE <<>>,
                                      isConnected /\ pong)
    /\ reqs' = Settled(reqs)
    /\ ret' = <<>>
    /\ allowedIn' = IF store' # store THEN forget(allowedIn, identifierKey(req)) ELSE allowedIn
    /\ UNCHANGED <<now, failureThreshold, calls, rateLimitTiers, defaultTier, isConnected, processVars, routingVars>>

\* A health or admin request arrives when no other request is in the pipeline.
SeqManagement(r, req, pong) ==
    /\ Quiet
    /\ GwManagement(r, req, pong)

\* The health and admin requests: every registered endpoint, the reset of a
\* known and of an unknown service, the reset and the status of the identity
\* the pipeline requests are counted under, and two paths no route is
\* registered for.
ManagementPaths ==
    {<<"/", "health", "/", "live">>, <<"/", "health", "/", "ready">>, <<"/", "health">>,
     <<"/", "ping">>, <<"/", "version">>, <<"/", "admin", "/", "metrics">>,
     <<"/", "admin", "/", "circuit-breakers">>, <<"/", "admin", "/", "routes">>,
     <<"/", "admin", "/", "circuit-breakers", "/", "localhost:3002", "/", "reset">>,
     <<"/", "admin", "/", "circuit-breakers", "/", "nowhere", "/", "reset">>,
     <<"/", "admin", "/", "rate-limits", "/", "ip", ":", "10.0.0.1">>,
     <<"/", "admin", "/", "rate-limits", "/", "ip", ":", "10.0.0.1", "/", "reset">>,
     <<"/", "admin", "/", "nothing">>, <<"/", "health", "/", "nothing">>}

ManagementRequests ==
    {Request(c, PlainEntry) :
        c \in [method : {"GET", "POST", "TRACE"}, path : ManagementPaths, query : {<<>>},
               authorization : {<<>>}]}

\* The pipeline requests that fill the counter store and open a breaker.
ManagedTraffic ==
    {Request([method |-> "POST", path |-> <<"/", "api", "/", "auth">>, query |-> <<>>,
              authorization |-> <<>>], PlainEntry)}

NextManagement ==
    \/ \E r \in Reqs, req \in ManagementRequests \cup ManagedTraffic : SeqArrive(r, req)
    \/ \E r \in Reqs, req \in ManagementRequests, pong \in BOOLEAN : SeqManagement(r, req, pong)
    \/ \E r \in Reqs : GwAuth(r)
    \/ \E r \in Reqs : GwRateLimit(r)
    \/ \E r \in Reqs : GetReply(r)
    \/ \E r \in Reqs : IncrReply(r)
    \/ RedisConnect
    \/ \E r \in Reqs : GwAttempt(r)
    \/ \E r \in Reqs : GwUpstreamResponds(r, 200)
    \/ \E r \in Reqs, code \in UpstreamFailures : GwUpstreamFails(r, code)

SpecManagement == InitGateway /\ [][NextManagement]_vars

\* ------------------------------------------------------- the error mapper
\* The errors mapUpstreamError is applied to: what axios throws (a network
\* error with a code, or an error that carries the upstream response), and
\* the gateway errors that makeRequest, execute and the mapper itself create.
MapperInputs ==
    {Thrown(name, code, 0, "none", response) :
        name \in {"AxiosError", "TimeoutError", "Error"},
        code \in {"none", "ECONNREFUSED", "ETIMEDOUT", "ECONNABORTED", "ENOTFOUND",
                  "ERR_BAD_RESPONSE"},
        response \in {<<>>, <<400>>, <<404>>, <<429>>, <<500>>, <<502>>, <<503>>}}
    \cup {circuitBreakerOpenError, makeRequestError("ECONNABORTED")}
    \cup {GatewayError(503, "SERVICE_UNAVAILABLE"), GatewayError(504, "GATEWAY_TIMEOUT"),
          GatewayError(502, "UPSTREAM_ERROR"), GatewayError(404, "UPSTREAM_ERROR"),
          GatewayError(502, "BAD_GATEWAY")}

\* ErrorHandler.mapUpstreamError is applied to the error at hand; ret holds
\* the error before and the returned error after.
MapUpstreamError ==
    /\ ret # <<>>
    /\ ret' = <<mapUpstreamError(ret[1])>>
    /\ UNCHANGED <<now, breakerVars, limiterVars, gatewayVars, processVars, routingVars>>

NextMapper == MapUpstreamError

\* The mapper alone, applied again and again to an error drawn from its inputs.
InitMapper ==
    /\ now = 0
    /\ failureThreshold = 1
    /\ circuitBreakers = [s \in {} |-> NewBreaker]
    /\ calls = [c \in Callers |-> IdleCall]
    /\ ret \in {<<e>> : e \in MapperInputs}
    /\ streak = [s \in Upstreams |-> 0]
    /\ hoSuccesses = [s \in Upstreams |-> 0]
    /\ rateLimitTiers = [t \in ConfiguredTiers |-> [requests |-> 1, windowMs |-> tierWindowMs]]
    /\ defaultTier = [requests |-> 1, windowMs |-> defaultWindowMs]
    /\ isConnected = FALSE
    /\ store = [k \in {} |-> [count |-> 0, expireAt |-> 0]]
    /\ reqs = [r \in Reqs |-> IdleReq]
    /\ allowedIn = [k \in {} |-> 0]
    /\ gw = [r \in Reqs |-> IdleGw]
    /\ proc = Started
    /\ routing = initializeRoutes
SpecMapper == InitMapper /\ [][NextMapper]_vars

\* ---------------------------------------------------------------------
\* forwardRequest: the pause before a retry (forwarding.js 164-170).
\* Times are whole milliseconds; the jitter, which the code computes as a
\* fraction of a millisecond, is kept exact in microseconds.

baseRetryDelay == 1000
maxRetryDelay == 10000
MaxAttempt == 8

RECURSIVE pow2(_)
\* Math.pow(2, n) for n >= 0.
pow2(n) == IF n = 0 THEN 1 ELSE 2 * pow2(n - 1)

Min(a, b) == IF a < b THEN a ELSE b

retryDelay_uncapped(attempt) == baseRetryDelay * pow2(attempt - 1)

\* const delay = Math.min(1000 * Math.pow(2, attempt - 1), 10000)
retryDelay(attempt) == Min(baseRetryDelay * pow2(attempt - 1), maxRetryDelay)

\* Math.random() is a number in [0, 1); here the thousandths k / 1000.
RandomSamples == {0, 1, 100, 250, 500, 750, 999}

\* const jitter = Math.random() * 0.1 * delay, in microseconds.
retryJitterMicros(random, delay) == (random * delay) \div 10

\* What one turn of the loop does before its try block: nothing when
\* attempt = 0, otherwise a timer of delay + jitter.
beforeAttempt(attempt, random) ==
    IF attempt > 0
    THEN LET delay == retryDelay(attempt)
             jitter == retryJitterMicros(random, delay)
         IN [attempt |-> attempt, isRetry |-> TRUE, delay |-> delay,
             jitterMicros |-> jitter, waitMicros |-> 1000 * delay + jitter]
    ELSE [attempt |-> attempt, isRetry |-> FALSE, delay |-> 0,
          jitterMicros |-> 0, waitMicros |-> 0]

BackoffInput(attempt, random) ==
    [attempt |-> attempt, isRetry |-> FALSE, delay |-> Null,
     jitterMicros |-> Null, waitMicros |-> Null, random |-> random]

\* The loop turn for the attempt number and the random draw held in ret.
BeforeAttempt ==
    /\ Len(ret) = 1
    /\ ret[1].delay = Null
    /\ ret' = <<beforeAttempt(ret[1].attempt, ret[1].random) @@ [random |-> ret[1].random]>>
    /\ UNCHANGED <<now, breakerVars, limiterVars, gatewayVars, processVars, routingVars>>

NextBackoff == BeforeAttempt

\* The loop turn alone, over every attempt number up to MaxAttempt and the
\* sampled random draws.
InitBackoff ==
    /\ now = 0
    /\ failureThreshold = 1
    /\ circuitBreakers = [s \in {} |-> NewBreaker]
    /\ calls = [c \in Callers |-> IdleCall]
    /\ ret \in {<<BackoffInput(a, k)>> : a \in 0..MaxAttempt, k \in RandomSamples}
    /\ streak = [s \in Upstreams |-> 0]
    /\ hoSuccesses = [s \in Upstreams |-> 0]
    /\ rateLimitTiers = [t \in ConfiguredTiers |-> [requests |-> 1, windowMs |-> tierWindowMs]]
    /\ defaultTier = [requests |-> 1, windowMs |-> defaultWindowMs]
    /\ isConnected = FALSE
    /\ store = [k \in {} |-> [count |-> 0, expireAt |-> 0]]
    /\ reqs = [r \in Reqs |-> IdleReq]
    /\ allowedIn = [k \in {} |-> 0]
    /\ gw = [r \in Reqs |-> IdleGw]
    /\ proc = Started
    /\ routing = initializeRoutes
SpecBackoff == InitBackoff /\ [][NextBackoff]_vars

\* ---------------------------------------------------------------------
\* buildUpstreamHeaders (forwarding.js 261-296).  A header object is a
\* function from the lower-case header names it holds to their values.

hopByHopHeaders ==
    {"connection", "keep-alive", "proxy-authenticate", "proxy-authorization",
     "te", "trailer", "transfer-encoding", "upgrade"}

\* delete headers[name] for every name in `names`
without(headers, names) == [n \in DOMAIN headers \ names |-> headers[n]]

\* headers[name] = value for every name of `assigned`
assign(headers, assigned) ==
    [n \in DOMAIN headers \cup DOMAIN assigned |->
        IF n \in DOMAIN assigned THEN assigned[n] ELSE headers[n]]

\* Array.prototype.join(',')
RECURSIVE join(_)
join(roles) ==
    IF roles = <<>> THEN ""
    ELSE IF Len(roles) = 1 THEN roles[1]
    ELSE roles[1] \o "," \o join(Tail(roles))

\* url.host: the host name, with the port unless it is the default one
hostOf(target) ==
    LET url == URL(target)[1] IN
    IF url.port # "" THEN url.hostname \o ":" \o url.port ELSE url.hostname

buildUpstreamHeaders(req, route) ==
    LET copied == without(req.headers, hopByHopHeaders)
        hosted == IF ~route.preserveHost
                  THEN assign(copied, [n \in {"host"} |-> hostOf(route.target)])
                  ELSE copied
        forwarded == assign(hosted,
                        [n \in {"x-forwarded-for", "x-forwarded-proto",
                                "x-forwarded-host", "x-request-id"} |->
                            CASE n = "x-forwarded-for" -> req.context.clientIp
                              [] n = "x-forwarded-proto" -> req.protocol
                              [] n = "x-forwarded-host" -> req.headers["host"]
                              [] n = "x-request-id" -> req.requestId])
    IN IF req.context.user # <<>>
       THEN assign(forwarded,
                   [n \in {"x-user-id", "x-user-roles", "x-user-tier"} |->
                       CASE n = "x-user-id" -> req.context.user[1].id
                         [] n = "x-user-roles" -> join(req.context.user[1].roles)
                         [] n = "x-user-tier" -> req.context.user[1].tier])
       ELSE forwarded

\* The headers a client can send besides Host: identity headers of its own
\* making, a hop-by-hop header and an end-to-end header.
ClientHeaders ==
    [n \in {"x-user-id", "x-user-roles", "x-user-tier", "connection", "accept"} |->
        CASE n = "x-user-id" -> "admin"
          [] n = "x-user-roles" -> "admin"
          [] n = "x-user-tier" -> "enterprise"
          [] n = "connection" -> "keep-alive"
          [] n = "accept" -> "*/*"]

InboundHeaders ==
    {assign([n \in {"host"} |-> "gateway.example"], [n \in S |-> ClientHeaders[n]]) :
        S \in SUBSET DOMAIN ClientHeaders}

\* req.context.user after the authentication stage: null, or the context
\* extractUserContext made from a verified token.
UserContexts ==
    {<<>>,
     <<[id |-> "u1", roles |-> <<"user">>, tier |-> "gold"]>>,
     <<[id |-> "u2", roles |-> <<"user", "support">>, tier |-> "basic"]>>}

ForwardedRequests ==
    {[headers |-> h, context |-> [user |-> u, clientIp |-> "10.0.0.1"],
      protocol |-> "http", requestId |-> "req-1"] :
        h \in InboundHeaders, u \in UserContexts}

\* makeRequest builds the headers of the upstream request for the request
\* and route held in ret.
BuildUpstreamHeaders ==
    /\ Len(ret) = 1
    /\ ret[1].upstream = <<>>
    /\ ret' = <<[ret[1] EXCEPT !.upstream = <<buildUpstreamHeaders(ret[1].req, ret[1].route)>>]>>
    /\ UNCHANGED <<now, breakerVars, limiterVars, gatewayVars, processVars, routingVars>>

NextHeaders == BuildUpstreamHeaders

InitHeaders ==
    /\ now = 0
    /\ failureThreshold = 1
    /\ circuitBreakers = [s \in {} |-> NewBreaker]
    /\ calls = [c \in Callers |-> IdleCall]
    /\ ret \in {<<[req |-> q, route |-> [target |-> Routes[2].target, preserveHost |-> FALSE],
                   upstream |-> <<>>]>> : q \in ForwardedRequests}
    /\ streak = [s \in Upstreams |-> 0]
    /\ hoSuccesses = [s \in Upstreams |-> 0]
    /\ rateLimitTiers = [t \in ConfiguredTiers |-> [requests |-> 1, windowMs |-> tierWindowMs]]
    /\ defaultTier = [requests |-> 1, windowMs |-> defaultWindowMs]
    /\ isConnected = FALSE
    /\ store = [k \in {} |-> [count |-> 0, expireAt |-> 0]]
    /\ reqs = [r \in Reqs |-> IdleReq]
    /\ allowedIn = [k \in {} |-> 0]
    /\ gw = [r \in Reqs |-> IdleGw]
    /\ proc = Started
    /\ routing = initializeRoutes
SpecHeaders == InitHeaders /\ [][NextHeaders]_vars

\* The pipeline in front of an upstream that refuses every connection, with
\* failureThreshold 2 and the counter store not connected (the limiter lets
\* every request pass).
NextRefusing ==
    \/ \E r \in Reqs, req \in Requests : SeqArrive(r, req)
    \/ \E r \in Reqs : GwAuth(r)
    \/ \E r \in Reqs : GwRateLimit(r)
    \/ \E r \in Reqs : GwAttempt(r)
    \/ \E r \in Reqs : GwUpstreamFails(r, "ECONNREFUSED")

InitRefusing ==
    /\ Init
    /\ failureThreshold = 2
    /\ defaultTier.requests = 1
    /\ \A t \in ConfiguredTiers : rateLimitTiers[t].requests = 1
SpecRefusing == InitRefusing /\ [][NextRefusing]_vars

\* ------------------------------------------------- client disconnects
\* The pipeline with clients that may close their connection while the
\* dispatcher has their request.
AbortingRequests ==
    {Request(c, PlainEntry) :
        c \in [method : {"GET", "POST"},
               path : {<<"/", "api", "/", "users">>, <<"/", "api", "/", "auth">>},
               query : {<<>>}, authorization : {<<>>, <<"Bearer ", "good">>}]}

NextAbort ==
    \/ \E r \in Reqs, req \in AbortingRequests : GwArrive(r, req)
    \/ \E r \in Reqs : GwAuth(r)
    \/ \E r \in Reqs : GwRateLimit(r)
    \/ \E r \in Reqs : GwAttempt(r)
    \/ \E r \in Reqs : GwClientAbort(r)
    \/ \E r \in Reqs, status \in UpstreamStatuses : GwUpstreamResponds(r, status)
    \/ \E r \in Reqs, code \in UpstreamFailures : GwUpstreamFails(r, code)

SpecAbort == InitRefusing /\ [][NextAbort]_vars

\* ------------------------------------------------------ late completions
\* The pipeline with two requests at a time for one upstream, a clock, and
\* an upstream that answers or refuses after any delay; failureThreshold 1,
\* the counter store not connected.
LateRequest ==
    Request([method |-> "POST", path |-> <<"/", "api", "/", "auth">>, query |-> <<>>,
             authorization |-> <<>>], PlainEntry)

NextLate ==
    \/ \E d \in TickSteps : Tick(d)
    \/ \E r \in Reqs : GwArrive(r, LateRequest)
    \/ \E r \in Reqs : GwAuth(r)
    \/ \E r \in Reqs : GwRateLimit(r)
    \/ \E r \in Reqs : GwAttempt(r)
    \/ \E r \in Reqs : GwUpstreamResponds(r, 200)
    \/ \E r \in Reqs : GwUpstreamFails(r, "ECONNREFUSED")

SpecLate == InitGateway /\ [][NextLate]_vars

\* The entry layer in front of the pipeline: requests that differ in what the
\* entry layer reads, with an upstream that answers 200.
\* Each variant differs from a plain request in at most one of body, URL
\* length, header count and header sizes, with or without an X-Request-ID.
EntryVariants ==
    {e \in [xRequestId : {<<>>, <<"">>, <<"cid">>},
            body : {"none", "json", "malformed", "oversize"},
            urlLength : {10, 2048, 2049},
            headerCount : {5, 100, 101},
            headerKeyLength : {13, 257},
            headerValueLength : {20, 4097}] :
        Cardinality({f \in {"body", "urlLength", "headerCount", "headerKeyLength",
                            "headerValueLength"} : e[f] # PlainEntry[f]}) <= 1}

EntryCores ==
    [method : {"GET", "TRACE"}, path : {<<"/", "api", "/", "users">>}, query : {<<>>},
     authorization : {<<>>, <<"Bearer ", "good">>}]
    \cup [method : {"GET"}, path : {<<"/", "api", "/", "auth">>}, query : {<<>>},
          authorization : {<<>>}]

EntryRequests == {Request(c, e) : c \in EntryCores, e \in EntryVariants}

NextEntry ==
    \/ \E r \in Reqs, req \in EntryRequests : SeqArrive(r, req)
    \/ \E r \in Reqs : GwAuth(r)
    \/ \E r \in Reqs : GwRateLimit(r)
    \/ \E r \in Reqs : GetReply(r)
    \/ \E r \in Reqs : IncrReply(r)
    \/ RedisConnect
    \/ \E r \in Reqs : GwAttempt(r)
    \/ \E r \in Reqs : GwUpstreamResponds(r, 200)

SpecEntry == InitGateway /\ [][NextEntry]_vars

\* ------------------------------------------------- ApiGateway shutdown
\* setTimeout(resolve, 5000) in shutdown
drainWaitMs == 5000

\* The clock of the shutdown specification stops here.
MaxDrainTime == 10000

\* The process after the synchronous part of shutdown(signal) at time t with a
\* store client that is closed at once: isShuttingDown is set, markNotReady
\* sets the status, server.close stops the listener, and the wait starts.
shutdownBegins_closesClientLast(p, t) ==
    [p EXCEPT !.isShuttingDown = TRUE, !.status = "not_ready", !.listening = FALSE,
              !.signals = 1, !.drainUntil = t + drainWaitMs]

\* The process after the synchronous part of shutdown(signal) at time t:
\* isShuttingDown is set, markNotReady sets the status, server.close stops the
\* listener, and rateLimitLayer.close calls redisClient.disconnect, which
\* rejects the commands that wait for a reply and destroys the socket before
\* it returns its promise; the wait of drainWaitMs starts when that promise
\* resolves.
shutdownBegins(p, t) ==
    [p EXCEPT !.isShuttingDown = TRUE, !.status = "not_ready", !.listening = FALSE,
              !.clientOpen = FALSE, !.signals = 1, !.drainUntil = t + drainWaitMs]

\* SIGTERM or SIGINT is delivered.  A signal that finds isShuttingDown set
\* returns at once.  The requests whose upstream call is in flight are marked.
ShutdownSignal ==
    /\ ~proc.exited
    /\ proc' = IF proc.isShuttingDown THEN [proc EXCEPT !.signals = 2]
               ELSE shutdownBegins(proc, now)
    /\ gw' = [r \in Reqs |->
                 IF ~proc.isShuttingDown /\ gw[r].pc = "inflight"
                 THEN [gw[r] EXCEPT !.atSignal = TRUE]
                 ELSE SettledGw(gw)[r]]
    /\ reqs' = Settled(reqs)
    /\ ret' = <<>>
    /\ UNCHANGED <<now, breakerVars, rateLimitTiers, defaultTier, isConnected, store, allowedIn, routingVars>>

\* The axios timer of an upstream request in flight has run out.
TimedOut(q, t) == q.pc = "inflight" /\ q.sentAt + Routes[q.route].timeout <= t

\* The timer of the shutdown wait fires and process.exit(0) ends the process
\* with whatever is in flight.  A timer that was due earlier has fired before.
ProcessExit ==
    /\ proc.isShuttingDown
    /\ ~proc.exited
    /\ now >= proc.drainUntil
    /\ \A r \in Reqs : ~TimedOut(gw[r], now)
    /\ proc' = [proc EXCEPT !.exited = TRUE]
    /\ gw' = SettledGw(gw)
    /\ reqs' = Settled(reqs)
    /\ ret' = <<>>
    /\ UNCHANGED <<now, breakerVars, rateLimitTiers, defaultTier, isConnected, store, allowedIn, routingVars>>

\* Time passes in the running process, up to the next timer that is due.
DrainTick(d) ==
    /\ ~proc.exited
    /\ now + d <= MaxDrainTime
    /\ proc.isShuttingDown => now + d <= proc.drainUntil
    /\ \A r \in Reqs : gw[r].pc = "inflight" => now + d <= gw[r].sentAt + Routes[gw[r].route].timeout
    /\ Tick(d)

\* The event loop of the running process takes a step of the pipeline.  A
\* request arrives on a connection the server accepted while it listened
\* (server.close keeps established connections).
LiveArrive(r, req) == ~proc.exited /\ GwArrive(r, req)
LiveAuth(r) == ~proc.exited /\ GwAuth(r)
LiveRateLimit(r) == ~proc.exited /\ GwRateLimit(r)
LiveAttempt(r) == ~proc.exited /\ GwAttempt(r)
LiveResponds(r, status) ==
    ~proc.exited /\ ~TimedOut(gw[r], now) /\ GwUpstreamResponds(r, status)
LiveTimeout(r) == ~proc.exited /\ TimedOut(gw[r], now) /\ GwUpstreamFails(r, "ECONNABORTED")

\* The store client: it connects and answers commands while it is open;
\* a closed client rejects every command.
LiveConnect == ~proc.exited /\ proc.clientOpen /\ RedisConnect
LiveGetReply(r) == ~proc.exited /\ proc.clientOpen /\ GetReply(r)
LiveIncrReply(r) == ~proc.exited /\ proc.clientOpen /\ IncrReply(r)
LiveGetError(r) == ~proc.exited /\ GetError(r)
LiveIncrError(r) == ~proc.exited /\ IncrError(r)

\* A health or admin request is handled; the store answers its command only
\* while the client is open.
LiveManagement(r, req, pong) ==
    /\ ~proc.exited
    /\ pong => proc.clientOpen
    /\ GwManagement(r, req, pong)

\* The requests of the shutdown specification: a client that sends requests
\* for the orders route, whose upstream timeout is longer than the shutdown
\* wait, and a prober that asks for readiness and liveness.
ShutdownTraffic ==
    {Request([method |-> "GET", path |-> <<"/", "api", "/", "orders">>, query |-> <<>>,
              authorization |-> <<"Bearer ", "good">>], PlainEntry)}

Probes ==
    {Request(c, PlainEntry) :
        c \in [method : {"GET"},
               path : {<<"/", "health", "/", "ready">>, <<"/", "health", "/", "live">>},
               query : {<<>>}, authorization : {<<>>}]}

Client == "r1"
Prober == "r2"

NextShutdown ==
    \/ ShutdownSignal
    \/ ProcessExit
    \/ DrainTick(drainWaitMs)
    \/ \E req \in ShutdownTraffic : LiveArrive(Client, req)
    \/ \E req \in Probes, pong \in BOOLEAN : LiveManagement(Prober, req, pong)
    \/ LiveAuth(Client)
    \/ LiveRateLimit(Client)
    \/ LiveAttempt(Client)
    \/ LiveResponds(Client, 200)
    \/ LiveTimeout(Client)
    \/ LiveConnect
    \/ LiveGetReply(Client)
    \/ LiveIncrReply(Client)
    \/ LiveGetError(Client)
    \/ LiveIncrError(Client)

SpecShutdown == InitGateway /\ [][NextShutdown]_vars

\* ------------------------------------------------- RoutingLayer admin operations
\* The route table holds at most this many routes.
MaxRoutes == 5

\* What a RoutingLayer operation returned or threw.
Returned(op, args, ok, error, index) ==
    [op |-> op, args |-> args, ok |-> ok, error |-> error, index |-> index]

\* addRoute(routeConfig): an invalid configuration throws before anything is
\* changed; otherwise the route is pushed to routes, and then to
\* compiledRoutes unless pathToRegexp throws while the entry is built.
addRoute(cfg) ==
    /\ Len(routing.routes) < MaxRoutes
    /\ IF validateRoute(cfg) # {}
       THEN /\ ret' = <<Returned("addRoute", <<cfg>>, FALSE, "INVALID_ROUTE_CONFIG", 0)>>
            /\ UNCHANGED routing
       ELSE IF pathToRegexpThrows(cfg.path)
       THEN /\ routing' = [routing EXCEPT !.routes = Append(@, routeOf(cfg))]
            /\ ret' = <<Returned("addRoute", <<cfg>>, FALSE, "TypeError", 0)>>
       ELSE /\ routing' = [routes |-> Append(routing.routes, routeOf(cfg)),
                           compiledRoutes |-> Append(routing.compiledRoutes,
                                                     compiled(routeOf(cfg)))]
            /\ ret' = <<Returned("addRoute", <<cfg>>, TRUE, "none", Len(routing.routes) + 1)>>
    /\ UNCHANGED <<now, breakerVars, limiterVars, gatewayVars, processVars>>

\* removeRoute(path)
removeRoute(path) ==
    /\ routing' = [routes |-> filterOut(routing.routes, "path", path),
                   compiledRoutes |-> filterOut(routing.compiledRoutes, "originalPath", path)]
    /\ ret' = <<Returned("removeRoute", <<path>>,
                         Len(routing.routes) - Len(routing'.routes) > 0, "none", 0)>>
    /\ UNCHANGED <<now, breakerVars, limiterVars, gatewayVars, processVars>>

\* findRoute(req) on the table as it is
FindRoute(method, path) ==
    /\ ret' = <<Returned("findRoute", <<method, path>>, TRUE, "none",
                         findRouteIn(routing.compiledRoutes, method, path))>>
    /\ UNCHANGED <<now, breakerVars, limiterVars, gatewayVars, processVars, routingVars>>

\* The configurations addRoute is called with: a second route for the path
\* of the users route, a new path with the defaults, a path pathToRegexp
\* cannot compile, and configurations validateRoute refuses.
PlainConfig ==
    [path |-> <<"/", "api", "/", "new">>, target |-> <<"http://localhost:3009">>,
     timeout |-> <<>>, retries |-> <<>>, methods |-> <<>>]

RouteConfigs ==
    {PlainConfig,
     [PlainConfig EXCEPT !.path = <<"/", "api", "/", "users">>, !.methods = <<{"GET", "PATCH"}>>],
     [PlainConfig EXCEPT !.retries = <<0>>, !.methods = <<{"POST"}>>],
     [PlainConfig EXCEPT !.path = <<"/", "api", "/", "(">>],
     [PlainConfig EXCEPT !.path = <<>>],
     [PlainConfig EXCEPT !.target = <<>>],
     [PlainConfig EXCEPT !.target = <<"not a url">>],
     [PlainConfig EXCEPT !.timeout = <<-1>>],
     [PlainConfig EXCEPT !.methods = <<{"GET", "TRACE"}>>]}

RoutePaths ==
    {<<"/", "api", "/", "users">>, <<"/", "api", "/", "new">>, <<"/", "api", "/", "(">>,
     <<"/", "api", "/", "none">>}

NextRouting ==
    \/ \E cfg \in RouteConfigs : addRoute(cfg)
    \/ \E path \in RoutePaths : removeRoute(path)
    \/ \E method \in {"GET", "POST", "PATCH"}, path \in RoutePaths : FindRoute(method, path)

SpecRouting == InitGateway /\ [][NextRouting]_vars

NextLimiter ==
    \/ \E d \in TickSteps : Tick(d)
    \/ \E r \in Reqs : RateLimitBegin(r, Anonymous)
    \/ \E r \in Reqs : GetReply(r)
    \/ \E r \in Reqs : GetError(r)
    \/ \E r \in Reqs : IncrReply(r)
    \/ \E r \in Reqs : IncrError(r)
    \/ RedisConnect
    \/ RedisError

\* The limiter alone, under contention: two request slots of one identity and
\* tier, store failures and connection events at any time.  The breaker
\* configuration and the default tier play no part in it.
InitLimiter == Init /\ failureThreshold = 1 /\ defaultTier.requests = 1
SpecLimiter == InitLimiter /\ [][NextLimiter]_vars

\* The limiter with requests issued one after another to a store that is
\* connected and answers before the clock advances.
SeqBegin(r, ctx) ==
    /\ isConnected
    /\ \A o \in Reqs : Finished(reqs[o])
    /\ RateLimitBegin(r, ctx)

SeqTick(d) ==
    /\ \A o \in Reqs : Finished(reqs[o])
    /\ Tick(d)

NextLimiterSeq ==
    \/ \E d \in TickSteps : SeqTick(d)
    \/ \E r \in Reqs, ctx \in Contexts : SeqBegin(r, ctx)
    \/ \E r \in Reqs : GetReply(r)
    \/ \E r \in Reqs : IncrReply(r)
    \/ RedisConnect

InitLimiterSeq == Init /\ failureThreshold = 1
SpecLimiterSeq == InitLimiterSeq /\ [][NextLimiterSeq]_vars

\* The limiter with requests issued one after another to a store that can
\* fail: it may be disconnected when a request starts, and a GET or an
\* INCR/EXPIRE may fail.  The clock advances between requests.
SeqBeginAny(r, ctx) ==
    /\ \A o \in Reqs : Finished(reqs[o])
    /\ RateLimitBegin(r, ctx)

SeqRedisConnect == (\A o \in Reqs : Finished(reqs[o])) /\ RedisConnect
SeqRedisError == (\A o \in Reqs : Finished(reqs[o])) /\ RedisError

NextLimiterOutage ==
    \/ \E d \in TickSteps : SeqTick(d)
    \/ \E r \in Reqs, ctx \in Contexts : SeqBeginAny(r, ctx)
    \/ \E r \in Reqs : GetReply(r)
    \/ \E r \in Reqs : GetError(r)
    \/ \E r \in Reqs : IncrReply(r)
    \/ \E r \in Reqs : IncrError(r)
    \/ SeqRedisConnect
    \/ SeqRedisError

SpecLimiterOutage == InitLimiterSeq /\ [][NextLimiterOutage]_vars

\* The limiter with requests of several identities and tiers, one after
\* another: two client addresses, two users, a user of the basic tier, and
\* a route of a tier that has no configuration of its own.
KeyContexts ==
    {Anonymous, GoldUser,
     [Anonymous EXCEPT !.clientIp = "10.0.0.2"],
     [Anonymous EXCEPT !.routeTier = "enterprise"],
     [GoldUser EXCEPT !.user = <<[id |-> "u2", tier |-> "gold"]>>],
     [GoldUser EXCEPT !.user = <<[id |-> "u1", tier |-> "basic"]>>, !.routeTier = "enterprise"]}

NextKeys ==
    \/ \E r \in Reqs, ctx \in KeyContexts : SeqBegin(r, ctx)
    \/ \E r \in Reqs : GetReply(r)
    \/ \E r \in Reqs : IncrReply(r)
    \/ RedisConnect

SpecKeys == InitGateway /\ [][NextKeys]_vars

NextBreaker ==
    \/ \E d \in TickSteps : Tick(d)
    \/ \E c \in Callers, s \in Services : CallExecute(c, s)
    \/ \E c \in Callers : CallSucceeds(c)
    \/ \E c \in Callers : CallFails(c)
    \/ \E s \in Services : resetCircuitBreaker(s)

\* The breaker alone; the limiter configuration plays no part in it.
InitBreaker ==
    /\ Init
    /\ defaultTier.requests = 1
    /\ \A t \in ConfiguredTiers : rateLimitTiers[t].requests = 1
SpecBreaker == InitBreaker /\ [][NextBreaker]_vars

\* ---------------------------------------------------------------------
\* The breaker table behind routes whose targets are written in different
\* ways: two spellings of localhost:3001, and the https default port and
\* the same port written out.
RegistryTargets ==
    { <<"http://localhost:3001">>, <<"http://LOCALHOST:3001/v2">>,
      <<"https://localhost">>, <<"http://localhost:443">> }

RegistryKeys == {extractServiceName(t) : t \in RegistryTargets}

\* forwardRequest for a route with this target, up to execute().
ForwardTo(c, target) == CallExecute(c, extractServiceName(target))

NextRegistry ==
    \/ \E d \in TickSteps : Tick(d)
    \/ \E c \in Callers, t \in RegistryTargets : ForwardTo(c, t)
    \/ \E c \in Callers : CallSucceeds(c)
    \/ \E c \in Callers : CallFails(c)

InitRegistry ==
    /\ now = 0
    /\ failureThreshold = 2
    /\ circuitBreakers = [s \in {} |-> NewBreaker]
    /\ calls = [c \in Callers |-> IdleCall]
    /\ ret = <<>>
    /\ streak = [s \in RegistryKeys |-> 0]
    /\ hoSuccesses = [s \in RegistryKeys |-> 0]
    /\ rateLimitTiers = [t \in ConfiguredTiers |-> [requests |-> 1, windowMs |-> tierWindowMs]]
    /\ defaultTier = [requests |-> 1, windowMs |-> defaultWindowMs]
    /\ isConnected = FALSE
    /\ store = [k \in {} |-> [count |-> 0, expireAt |-> 0]]
    /\ reqs = [r \in Reqs |-> IdleReq]
    /\ allowedIn = [k \in {} |-> 0]
    /\ gw = [r \in Reqs |-> IdleGw]
    /\ proc = Started
    /\ routing = initializeRoutes
SpecRegistry == InitRegistry /\ [][NextRegistry]_vars

\* ============================================================ properties
\* The breaker of service s exists and is in state st.
BreakerIn(s, st) == s \in DOMAIN circuitBreakers /\ circuitBreakers[s].state = st

\* ---------------------------------------------------------------- C1
\* C1: when a failed call completes and it is at least the failureThreshold-th
\* consecutive failure on its breaker (no success or reset in between), the
\* breaker is OPEN afterwards and nextAttempt is the time of that failure
\* plus recoveryTimeout.
C1_OpensAtThreshold ==
    [][\A c \in Callers :
          (CallFails(c) /\ streak'[calls[c].svc] >= failureThreshold)
          => LET b == circuitBreakers'[calls[c].svc] IN
             /\ b.state = OPEN
             /\ b.lastFailureTime = now
             /\ b.nextAttempt = now + recoveryTimeout]_vars

\* A breaker that was opened by exactly failureThreshold >= 2 consecutive failures.
C1_Witness ==
    \E s \in DOMAIN circuitBreakers :
        /\ failureThreshold >= 2
        /\ streak[s] = failureThreshold
        /\ circuitBreakers[s].state = OPEN
        /\ circuitBreakers[s].successCount = 0
        /\ circuitBreakers[s].nextAttempt = circuitBreakers[s].lastFailureTime + recoveryTimeout

\* ---------------------------------------------------------------- C2
\* C2: a call to execute that arrives while the breaker is OPEN and
\* now < nextAttempt is rejected, the upstream request is not started, and
\* no field of the breaker (nor any other breaker) changes.
C2_RejectWhileOpen ==
    [][\A c \in Callers, s \in Services :
          (/\ CallExecute(c, s)
           /\ BreakerIn(s, OPEN)
           /\ now < circuitBreakers[s].nextAttempt)
          => /\ calls'[c] = [pc |-> "rejected", svc |-> s]
             /\ circuitBreakers' = circuitBreakers]_vars

\* A caller was just rejected by a breaker that is still inside its rejection period.
C2_Witness ==
    \E c \in Callers :
        /\ calls[c].pc = "rejected"
        /\ BreakerIn(calls[c].svc, OPEN)
        /\ now < circuitBreakers[calls[c].svc].nextAttempt

\* ---------------------------------------------------------------- C3
\* C3: a call to execute that arrives while the breaker is OPEN and
\* now >= nextAttempt puts the breaker in HALF_OPEN with successCount = 0
\* and the wrapped upstream request is started (the call is not rejected).
C3_HalfOpenAfterTimeout ==
    [][\A c \in Callers, s \in Services :
          (/\ CallExecute(c, s)
           /\ BreakerIn(s, OPEN)
           /\ now >= circuitBreakers[s].nextAttempt)
          => /\ calls'[c] = [pc |-> "inflight", svc |-> s]
             /\ circuitBreakers'[s].state = HALF_OPEN
             /\ circuitBreakers'[s].successCount = 0]_vars

\* The probe call of a HALF_OPEN period is in flight, exactly at the end of the rejection period.
C3_Witness ==
    \E c \in Callers :
        /\ calls[c].pc = "inflight"
        /\ BreakerIn(calls[c].svc, HALF_OPEN)
        /\ circuitBreakers[calls[c].svc].successCount = 0
        /\ now = circuitBreakers[calls[c].svc].nextAttempt

\* ---------------------------------------------------------------- C4
\* C4: in HALF_OPEN, successCount is the number of successes completed in
\* this HALF_OPEN period and is below 3; the success that is the third of the
\* period closes the breaker with failureCount = 0, an earlier one leaves it
\* HALF_OPEN with successCount one higher.
C4_HalfOpenQuorum ==
    /\ [](\A s \in DOMAIN circuitBreakers :
             circuitBreakers[s].state = HALF_OPEN
             => /\ circuitBreakers[s].successCount = hoSuccesses[s]
                /\ hoSuccesses[s] < 3)
    /\ [][\A c \in Callers :
             (CallSucceeds(c) /\ BreakerIn(calls[c].svc, HALF_OPEN))
             => LET s == calls[c].svc
                    b == circuitBreakers'[s]
                IN IF hoSuccesses[s] + 1 = 3
                   THEN b.state = CLOSED /\ b.failureCount = 0
                   ELSE b.state = HALF_OPEN /\ b.successCount = hoSuccesses[s] + 1]_vars

\* A breaker that three successes have just closed after a second HALF_OPEN period.
C4_Witness ==
    \E s \in DOMAIN circuitBreakers :
        /\ circuitBreakers[s].state = CLOSED
        /\ circuitBreakers[s].successCount = 3
        /\ circuitBreakers[s].failureCount = 0
        /\ circuitBreakers[s].nextAttempt = 2 * recoveryTimeout

\* ---------------------------------------------------------------- C5
\* C5: a failed call that completes while the breaker is HALF_OPEN puts it in
\* OPEN with nextAttempt = now + recoveryTimeout, whatever failureCount and
\* successCount are.
C5_HalfOpenFailureReopens ==
    [][\A c \in Callers :
          (CallFails(c) /\ BreakerIn(calls[c].svc, HALF_OPEN))
          => LET b == circuitBreakers'[calls[c].svc] IN
             /\ b.state = OPEN
             /\ b.nextAttempt = now + recoveryTimeout]_vars

\* A breaker re-opened from HALF_OPEN although its failureCount is below the threshold.
C5_Witness ==
    \E s \in DOMAIN circuitBreakers :
        /\ circuitBreakers[s].state = OPEN
        /\ circuitBreakers[s].failureCount < failureThreshold
        /\ circuitBreakers[s].successCount > 0
        /\ circuitBreakers[s].nextAttempt = circuitBreakers[s].lastFailureTime + recoveryTimeout

\* ---------------------------------------------------------------- C6
\* C6: a success that completes while the breaker is CLOSED leaves it CLOSED
\* with failureCount = 0, and a CLOSED breaker opens only on a failure that is
\* at least the failureThreshold-th consecutive one.
C6_SuccessClearsFailures ==
    /\ [][\A c \in Callers :
             (CallSucceeds(c) /\ BreakerIn(calls[c].svc, CLOSED))
             => LET b == circuitBreakers'[calls[c].svc] IN
                b.state = CLOSED /\ b.failureCount = 0]_vars
    /\ [][\A s \in DOMAIN circuitBreakers :
             (circuitBreakers[s].state = CLOSED /\ circuitBreakers'[s].state = OPEN)
             => streak'[s] >= failureThreshold]_vars

\* A breaker that never left CLOSED, has failed before, and whose count a success cleared.
C6_Witness ==
    \E s \in DOMAIN circuitBreakers :
        /\ failureThreshold >= 2
        /\ circuitBreakers[s].state = CLOSED
        /\ circuitBreakers[s].failureCount = 0
        /\ circuitBreakers[s].lastFailureTime # Null
        /\ circuitBreakers[s].nextAttempt = Null

\* ---------------------------------------------------------------- C7
\* C7: resetCircuitBreaker on a known key leaves that breaker CLOSED with
\* failureCount = successCount = 0 and lastFailureTime = nextAttempt = null
\* and returns true; on an unknown key it returns false and the table is
\* unchanged; and a call that arrives at a CLOSED breaker is always dispatched.
C7_ResetForcesClosed ==
    /\ [][\A s \in Services :
             resetCircuitBreaker(s)
             => IF s \in DOMAIN circuitBreakers
                THEN /\ ret' = <<TRUE>>
                     /\ circuitBreakers'[s].state = CLOSED
                     /\ circuitBreakers'[s].failureCount = 0
                     /\ circuitBreakers'[s].successCount = 0
                     /\ circuitBreakers'[s].lastFailureTime = Null
                     /\ circuitBreakers'[s].nextAttempt = Null
                ELSE /\ ret' = <<FALSE>>
                     /\ circuitBreakers' = circuitBreakers]_vars
    /\ [][\A c \in Callers, s \in Services :
             (CallExecute(c, s) /\ BreakerIn(s, CLOSED))
             => calls'[c] = [pc |-> "inflight", svc |-> s]]_vars

\* A breaker that had rejected a caller has just been reset.
C7_Witness ==
    \E c \in Callers :
        /\ ret = <<TRUE>>
        /\ calls[c].pc = "rejected"
        /\ circuitBreakers[calls[c].svc] = NewBreaker

\* ---------------------------------------------------------------- C8
\* C8: with requests issued one after another to a reachable store, a
\* request is allowed exactly when fewer than L requests of its tier and
\* identity were allowed before it in the window of its sampled time, and
\* then remaining = L - (that number) - 1, so the first request of a window
\* gets remaining = L - 1; otherwise it is denied with 429
\* RATE_LIMIT_EXCEEDED, remaining = 0 and a resetTime later than the clock.
C8_FixedWindowLimit ==
    [][\A r \in Reqs :
          (~Finished(reqs[r]) /\ Finished(reqs'[r]))
          => LET q == reqs[r]
                 o == reqs'[r]
                 n == AllowedSoFar(q)
                 L == cfgOf(q).requests
             IN IF n < L
                THEN /\ o.pc = "passed"
                     /\ o.result.allowed
                     /\ o.result.remaining = L - n - 1
                     /\ o.error = <<>>
                ELSE /\ o.pc = "rejected"
                     /\ ~o.result.allowed
                     /\ o.result.remaining = 0
                     /\ o.result.resetTime > now
                     /\ o.headers.remaining = 0
                     /\ o.error # <<>>
                     /\ o.error[1].statusCode = 429
                     /\ o.error[1].errorCode = "RATE_LIMIT_EXCEEDED"]_vars

\* The first request after the window boundary is allowed with
\* remaining = L - 1 although the counter of the previous window, still in
\* the store, shows that window exhausted.
C8_Witness ==
    \E r \in Reqs :
        /\ reqs[r].pc = "passed"
        /\ ~reqs[r].infra
        /\ reqs[r].windowStart = tierWindowMs
        /\ cfgOf(reqs[r]).requests >= 2
        /\ reqs[r].result.remaining = cfgOf(reqs[r]).requests - 1
        /\ \E k \in DOMAIN store :
              /\ k[1] = getRateLimitKey(reqs[r].ctx[1], reqs[r].tier)
              /\ k[2] = 0
              /\ store[k].count = cfgOf(reqs[r]).requests

C10_FailOpen ==
    \A r \in Reqs :
        /\ (reqs[r].infra
            => /\ reqs[r].pc = "passed"
               /\ reqs[r].result.allowed
               /\ reqs[r].result.remaining = -1
               /\ reqs[r].error = <<>>)
        /\ (reqs[r].pc = "rejected" => ~reqs[r].infra)

\* A request passed on a store failure although its counter had reached the limit.
C10_Witness ==
    \E r \in Reqs :
        /\ reqs[r].infra
        /\ reqs[r].pc = "passed"
        /\ windowKeyOf(reqs[r]) \in DOMAIN store
        /\ store[windowKeyOf(reqs[r])].count >= cfgOf(reqs[r]).requests

\* --------------------------------------------------------------- C11
\* The limit of the tier of a history key, and the number of request slots:
\* at most that many requests are in the limiter at any time.
LimitOf(k) == getTierConfig(rateLimitTiers, defaultTier, k[1]).requests
MaxInFlight == Cardinality(Reqs)

\* C11 as stated: the number of requests that the store-computed decisions
\* allowed in one window (the window of the time each request sampled) never
\* exceeds L + N - 1.
C11_ContentionBound ==
    \A k \in DOMAIN allowedIn : allowedIn[k] <= LimitOf(k) + MaxInFlight - 1

\* C11, amended: while a window lasts, the number of requests allowed in it
\* never exceeds L + N - 1.  (A request that sampled its time in the window
\* and whose GET reaches the store after the window's counter has expired is
\* allowed in addition.)
C11_ContentionBoundInWindow ==
    \A k \in DOMAIN allowedIn :
        now \div getTierConfig(rateLimitTiers, defaultTier, k[1]).windowMs = k[4]
        => allowedIn[k] <= LimitOf(k) + MaxInFlight - 1

\* The bound is reached inside a window with a limit of 2: two requests read
\* the same count and both increment.
C11_Witness ==
    \E k \in DOMAIN allowedIn :
        /\ LimitOf(k) = 2
        /\ now \div getTierConfig(rateLimitTiers, defaultTier, k[1]).windowMs = k[4]
        /\ allowedIn[k] = LimitOf(k) + MaxInFlight - 1

\* ---------------------------------------------------------------- C12
\* The request of slot r has passed authentication: its route is resolved and,
\* when the route requires authentication, a user is attached.
PassedAuth(q) ==
    /\ q.route # 0
    /\ Routes[q.route].authRequired => q.user # <<>>

\* C12: within a request the stages run in the order resolve, auth, limit,
\* dispatch, and a stage is entered only from the stage before it, when that
\* stage passed: only a request with a resolved route that passed
\* authentication changes a rate counter, and only a request that the limiter
\* passed changes a breaker or sends an upstream request.
C12_StagesInOrder ==
    [][/\ \A r \in Reqs :
            /\ IsPrefix(gw'[r].ran, Pipeline)
            /\ (gw'[r].pc = "auth" /\ gw[r].pc # "auth")
                   => gw'[r].ran = <<"resolve">> /\ gw'[r].route # 0
            /\ (gw'[r].pc = "limit" /\ gw[r].pc # "limit")
                   => gw[r].pc = "auth" /\ gw'[r].ran = <<"resolve", "auth">> /\ PassedAuth(gw'[r])
            /\ (gw'[r].pc = "limiting" /\ gw[r].pc # "limiting")
                   => gw[r].pc = "limit" /\ PassedAuth(gw[r])
            /\ (gw'[r].pc = "dispatch" /\ gw[r].pc # "dispatch")
                   => /\ gw[r].pc \in {"limit", "limiting"}
                      /\ PassedAuth(gw[r])
                      /\ reqs'[r].pc = "passed"
            /\ (gw'[r].pc = "inflight" /\ gw[r].pc # "inflight")
                   => gw[r].pc \in {"dispatch", "backoff"} /\ gw'[r].ran = Pipeline
            /\ gw'[r].sent # <<>> => gw'[r].ran = Pipeline
       /\ (store' # store /\ now' = now)
              => \E r \in Reqs : gw[r].pc = "limiting" /\ PassedAuth(gw[r])
       /\ circuitBreakers' # circuitBreakers
              => \E r \in Reqs : /\ gw[r].pc \in {"dispatch", "backoff", "inflight"}
                                 /\ gw'[r].ran = Pipeline
      ]_vars

\* A request denied by the limiter has been answered after three stages,
\* without an upstream request.
C12_Witness ==
    \E r \in Reqs :
        /\ gw[r].pc = "done"
        /\ gw[r].ran = <<"resolve", "auth", "limit">>
        /\ gw[r].response.status = 429
        /\ gw[r].sent = <<>>

\* ---------------------------------------------------------------- C13
\* The path of the request matches the pattern of a route that does not list
\* the request's method, the method is one the entry layer lets through, and
\* no route matches the request.
MethodMismatch(req) ==
    /\ req.method \in allowedMethods
    /\ \E i \in DOMAIN Routes :
           regexpExec(Routes[i].path, req.path) /\ req.method \notin Routes[i].methods
    /\ ~\E j \in DOMAIN Routes :
           regexpExec(Routes[j].path, req.path) /\ req.method \in Routes[j].methods

UnderRoute(req) ==
    \E i \in DOMAIN Routes : req.method \in Routes[i].methods /\ IsPrefix(Routes[i].path, req.path)

\* C14: a request under a route's pattern is matched by the route, and what is
\* sent upstream for a matched request of a stripPath route is the route's
\* base without a trailing slash, then the path without the matched prefix
\* ("/" when nothing is left), then the query string once: GET /api/users/y?q=1
\* reaches the upstream as GET http://localhost:3001/y?q=1.
C14_TargetUrl ==
    \A r \in Reqs :
        /\ (gw[r].pc = "done" /\ UnderRoute(gw[r].req)) => gw[r].response.error # "ROUTE_NOT_FOUND"
        /\ \A k \in DOMAIN gw[r].sent :
               /\ gw[r].sent[k].method = gw[r].req.method
               /\ gw[r].sent[k].url =
                      LET route == Routes[gw[r].route]
                          rest == SubSeq(gw[r].req.path, Len(route.path) + 1, Len(gw[r].req.path))
                      IN dropTrailingSlash(route.target)
                         \o (IF rest = <<>> THEN <<"/">> ELSE rest)
                         \o (IF gw[r].req.query = <<>> THEN <<>>
                             ELSE <<"?">> \o queryString(gw[r].req.query))

\* ---------------------------------------------------------------- C15
\* The authentication stage has run for the request q of a route that
\* requires authentication.
RequiredAuthRan(q) ==
    /\ q.route # 0
    /\ Routes[q.route].authRequired
    /\ Len(q.ran) >= 2

\* The error code the claim names for a request without a valid credential.
C15_ErrorCode(authHeader) ==
    LET tok == extractToken(authHeader) IN
    IF noToken(tok) THEN "MISSING_TOKEN"
    ELSE CASE tok[1] = "malformed" -> "INVALID_TOKEN"
           [] tok[1] = "expired" -> "TOKEN_EXPIRED"
           [] tok[1] = "premature" -> "TOKEN_NOT_ACTIVE"
           [] OTHER -> "AUTH_FAILED"

\* C15: on a route with authRequired a request without a credential is
\* answered MISSING_TOKEN, one with an invalid, expired or not yet active
\* token INVALID_TOKEN, TOKEN_EXPIRED or TOKEN_NOT_ACTIVE, one whose token
\* fails otherwise AUTH_FAILED; the status is 401, no user is attached, no
\* later stage runs and nothing is sent upstream.
C15_RequiredAuthErrors ==
    \A r \in Reqs :
        (/\ RequiredAuthRan(gw[r])
         /\ extractToken(gw[r].req.authorization) # <<"good">>)
            => /\ gw[r].pc = "done"
               /\ gw[r].response.status = 401
               /\ gw[r].response.error = C15_ErrorCode(gw[r].req.authorization)
               /\ gw[r].user = <<>>
               /\ gw[r].ran = <<"resolve", "auth">>
               /\ gw[r].sent = <<>>

\* GET /api/users with an expired bearer token has been answered TOKEN_EXPIRED.
C15_Witness ==
    \E r \in Reqs :
        /\ gw[r].pc = "done"
        /\ RequiredAuthRan(gw[r])
        /\ gw[r].req.authorization = <<"Bearer ", "expired">>
        /\ gw[r].response.error = "TOKEN_EXPIRED"
        /\ gw[r].response.status = 401

\* ---------------------------------------------------------------- C16
\* The authentication stage has run for the request q of a route on which
\* authentication is optional, and q carries no valid token.
OptionalAuthRanInvalid(q) ==
    /\ q.route # 0
    /\ ~Routes[q.route].authRequired
    /\ Len(q.ran) >= 2
    /\ extractToken(q.req.authorization) # <<"good">>

\* C16: on a route without authRequired a request with a missing or invalid
\* token is not answered by the authentication stage: no authentication
\* error is surfaced, no user is attached, the request goes on to the limiter,
\* which counts it under the key of its client address, and from there to the
\* dispatcher.
C16_OptionalAuthProceeds ==
    \A r \in Reqs :
        OptionalAuthRanInvalid(gw[r])
            => /\ gw[r].user = <<>>
               /\ gw[r].response.status # 401
               /\ Len(gw[r].ran) = 2 => gw[r].pc = "limit"
               /\ Len(gw[r].ran) = 3 => gw[r].pc \in {"limiting", "dispatch", "done"}
               /\ (gw[r].pc = "done" /\ Len(gw[r].ran) = 3) => gw[r].response.status = 429
               /\ reqs[r].ctx # <<>>
                      => /\ reqs[r].ctx[1].user = <<>>
                         /\ windowKeyOf(reqs[r])[1][2] = <<"ip", "10.0.0.1">>

\* POST /api/auth with a malformed bearer token has been sent upstream after
\* the limiter counted it under the client address.
C16_Witness ==
    \E r \in Reqs :
        /\ OptionalAuthRanInvalid(gw[r])
        /\ gw[r].req.authorization = <<"Bearer ", "malformed">>
        /\ gw[r].pc = "inflight"
        /\ gw[r].ran = Pipeline
        /\ gw[r].sent # <<>>
        /\ \E k \in DOMAIN store : k[1][2] = <<"ip", "10.0.0.1">> /\ store[k].count > 0

\* ---------------------------------------------------------------- C17
\* C17: when an upstream attempt that the breaker admitted fails on the
\* network, the request is retried unless retries + 1 attempts have been made,
\* retries being the route's; the request is answered with the mapped error
\* only after exactly retries + 1 attempts, and never more are made.
C17_RetryBudget ==
    [][\A r \in Reqs :
          /\ gw'[r].route # 0 => Len(gw'[r].sent) <= Routes[gw'[r].route].retries + 1
          /\ (\E code \in UpstreamFailures : GwUpstreamFails(r, code))
                 => IF Len(gw[r].sent) < Routes[gw[r].route].retries + 1
                    THEN gw'[r].pc = "backoff"
                    ELSE /\ gw'[r].pc = "done"
                         /\ gw'[r].response.error
                                \in {"SERVICE_UNAVAILABLE", "GATEWAY_TIMEOUT", "BAD_GATEWAY"}
      ]_vars

\* ---------------------------------------------------------------- C18
\* The breaker of the request's service rejects a call now.
Rejects(q) ==
    LET s == extractServiceName(Routes[q.route].target)
    IN ~execute(getCircuitBreaker(circuitBreakers, s)[s], now).admitted

\* C18: a request whose call the breaker rejects, and a request whose
\* upstream answers with a status in {400, 401, 403, 404, 422}, is answered in
\* that step and no further upstream request is sent for it; an upstream 404
\* on the first attempt is passed on to the client as 404 with the request's
\* X-Request-ID, after that one upstream request.
C18_TerminatingConditions ==
    [][\A r \in Reqs :
          /\ (gw[r].pc \in {"dispatch", "backoff"} /\ Rejects(gw[r]) /\ gw'[r] # gw[r])
                 => /\ gw'[r].pc = "done"
                    /\ gw'[r].sent = gw[r].sent
          /\ \A status \in terminalStatuses \cap UpstreamStatuses :
                 GwUpstreamResponds(r, status)
                     => /\ gw'[r].pc = "done"
                        /\ gw'[r].sent = gw[r].sent
                        /\ (status = 404 /\ Len(gw[r].sent) = 1)
                               => gw'[r].response =
                                      [status |-> 404, error |-> "none", requestId |-> r]
          /\ (gw[r].pc = "done" /\ gw'[r].pc # "done") => gw'[r].sent = <<>>
      ]_vars

\* An upstream 404 has been passed on to the client after one upstream request.
C18_Witness ==
    \E r \in Reqs :
        /\ gw[r].pc = "done"
        /\ gw[r].ran = Pipeline
        /\ Len(gw[r].sent) = 1
        /\ gw[r].response = [status |-> 404, error |-> "none", requestId |-> r]

\* ---------------------------------------------------------------- C19
\* C19: an upstream response with a status of 500 or more is a failed
\* attempt: the breaker counts a failure, the status is not passed on to the
\* client, the attempt is retried while the budget lasts, and the request is
\* answered 502 UPSTREAM_ERROR when it is exhausted.
C19_ServerErrorIsFailure ==
    [][\A r \in Reqs : \A status \in {u \in UpstreamStatuses : u >= 500} :
          GwUpstreamResponds(r, status)
              => LET s == extractServiceName(Routes[gw[r].route].target) IN
                 /\ circuitBreakers'[s].failureCount = circuitBreakers[s].failureCount + 1
                 /\ circuitBreakers'[s].lastFailureTime = now
                 /\ gw'[r].response.status # status
                 /\ gw'[r].pc \in {"backoff", "done"}
                 /\ gw'[r].pc = "done"
                        => gw'[r].response =
                               [status |-> 502, error |-> "UPSTREAM_ERROR", requestId |-> r]
      ]_vars

\* ---------------------------------------------------------------- C20
\* The response the claim names for a request whose last attempt failed on
\* the network with the given code.
C20_Mapped(code, requestId) ==
    CASE code = "ECONNREFUSED" ->
             [status |-> 503, error |-> "SERVICE_UNAVAILABLE", requestId |-> requestId]
      [] code = "ECONNABORTED" ->
             [status |-> 504, error |-> "GATEWAY_TIMEOUT", requestId |-> requestId]
      [] OTHER -> [status |-> 502, error |-> "BAD_GATEWAY", requestId |-> requestId]

\* C20: a request that is answered because its last upstream attempt failed
\* is answered 503 SERVICE_UNAVAILABLE when the connection was refused, 504
\* GATEWAY_TIMEOUT when the upstream timeout was hit, and 502 BAD_GATEWAY for
\* any other fault.
C20_ErrorMapping ==
    [][\A r \in Reqs : \A code \in UpstreamFailures :
          (GwUpstreamFails(r, code) /\ gw'[r].pc = "done")
              => gw'[r].response = C20_Mapped(code, r)
      ]_vars

\* ---------------------------------------------------------------- C21
\* C21: a request whose call the OPEN breaker rejects is answered with
\* status 503 and error code CIRCUIT_BREAKER_OPEN.
C21_BreakerRejectionAnswer ==
    [][\A r \in Reqs :
          (gw[r].pc \in {"dispatch", "backoff"} /\ Rejects(gw[r]) /\ gw'[r] # gw[r])
              => gw'[r].response =
                     [status |-> 503, error |-> "CIRCUIT_BREAKER_OPEN", requestId |-> r]
      ]_vars

\* ---------------------------------------------------------------- C22
\* C22: the error mapper is idempotent: applied to an error that is already
\* a gateway error it returns an error with the same error code and status.
C22_MapperIdempotent ==
    [][(MapUpstreamError /\ ret[1].name = "GatewayError")
           => /\ ret'[1].errorCode = ret[1].errorCode
              /\ ret'[1].statusCode = ret[1].statusCode
      ]_vars

\* ---------------------------------------------------------------- C23
\* C23: with failureThreshold 2 and an upstream that refuses every
\* connection, a request whose attempt is refused is retried until retries + 1
\* attempts have been made and is then answered 503 SERVICE_UNAVAILABLE; a
\* request that arrives at the dispatcher while the breaker is OPEN within
\* recoveryTimeout is answered 503 CIRCUIT_BREAKER_OPEN and no upstream
\* request is sent for it.
C23_BreakerOpensScenario ==
    [][\A r \in Reqs :
          /\ GwUpstreamFails(r, "ECONNREFUSED")
                 => IF gw'[r].pc = "done"
                    THEN /\ Len(gw[r].sent) = Routes[gw[r].route].retries + 1
                         /\ gw'[r].response =
                                [status |-> 503, error |-> "SERVICE_UNAVAILABLE",
                                 requestId |-> r]
                    ELSE gw'[r].pc = "backoff"
          /\ (gw[r].pc = "dispatch" /\ Rejects(gw[r]) /\ gw'[r] # gw[r])
                 => /\ gw'[r].sent = <<>>
                    /\ gw'[r].response =
                           [status |-> 503, error |-> "CIRCUIT_BREAKER_OPEN", requestId |-> r]
      ]_vars

\* ---------------------------------------------------------------- C24
\* C24: every response carries X-Request-ID: the id the client supplied in
\* its X-Request-ID header, or else a generated one.  This holds for every
\* answered request, whether it was forwarded, rejected (404, 405, 401, 429)
\* or had a body that could not be parsed or was too large.
C24_RequestIdOnEveryResponse ==
    \A r \in Reqs :
        gw[r].pc = "done"
            => gw[r].response.requestId =
                   IF gw[r].req.xRequestId \notin {<<>>, <<"">>}
                   THEN gw[r].req.xRequestId[1]
                   ELSE r

\* ---------------------------------------------------------------- C25
\* The status the claim names for a request that global admission rejects;
\* 0 for a request it admits.  The method is looked at first, then the URL
\* length, then the number of headers.
C25_Status(req) ==
    IF req.method \notin {"GET", "POST", "PUT", "DELETE", "PATCH", "OPTIONS", "HEAD"} THEN 405
    ELSE IF req.urlLength > 2048 THEN 414
    ELSE IF req.headerCount > 100 THEN 400
    ELSE 0

C26_Managed(q) ==
    /\ q.pc = "done"
    /\ bodyParser(q.req.body) = <<>>
    /\ entryRejection(q.req) = <<>>
    /\ managementEndpoint(q.req.method, q.req.path) # "none"

C27_NoAttemptAfterAbort ==
    [][\A r \in Reqs : gw[r].aborted => Len(gw'[r].sent) <= Len(gw[r].sent)]_vars

\* The client went away during the upstream attempt, the attempt then failed,
\* and the request ended with the one upstream request it had sent before.
C27_Witness ==
    \E r \in Reqs :
        /\ gw[r].aborted
        /\ gw[r].pc = "done"
        /\ gw[r].response.status = 500
        /\ Len(gw[r].sent) = 1
        /\ Routes[gw[r].route].retries >= 2

\* A request drains: its upstream call was in flight when the signal came and
\* it has not been answered yet.
C28_Draining(q) == q.atSignal /\ q.pc \notin {"idle", "done"}

\* C28: shutdown marks the gateway not ready and stops accepting before it
\* does anything else, the store connection is not closed while a request
\* that was in flight at the signal drains, the process exits only after the store
\* connection is closed, and a second signal changes nothing.
C28_ShutdownOrder ==
    /\ [](proc.isShuttingDown => proc.status = "not_ready" /\ ~proc.listening)
    /\ [](~proc.clientOpen /\ ~proc.exited => \A r \in Reqs : ~C28_Draining(gw[r]))
    /\ [](proc.exited => ~proc.clientOpen)
    /\ [][proc.isShuttingDown /\ proc'.signals # proc.signals
            => proc' = [proc EXCEPT !.signals = proc'.signals]]_vars

\* C29: an upstream call that was in flight when the shutdown signal came has
\* been completed, and its response written, when the process exits.
C29_InFlightCompletesBeforeExit ==
    [][~proc.exited /\ proc'.exited
          => \A r \in Reqs : ~(gw[r].atSignal /\ gw[r].pc = "inflight")]_vars

\* A readiness probe has been answered in this step.
C30_Probed(q) ==
    /\ q.pc = "done"
    /\ managementEndpoint(q.req.method, q.req.path) = "readiness"

\* C30: a /health/ready probe that is answered after the gateway has been
\* marked not ready and before the process has exited is answered 503, whether
\* or not the counter store is connected.
C30_NotReadyDuringShutdown ==
    [][\A r \in Reqs :
          (C30_Probed(gw'[r]) /\ proc.status = "not_ready" /\ ~proc.exited
              /\ (gw'[r] # gw[r] \/ gw[r].pc = "done"))
          => gw'[r].response.status = 503]_vars

\* A readiness probe has been answered 503 during shutdown although the store
\* layer holds itself connected.
C30_Witness ==
    \E r \in Reqs :
        /\ C30_Probed(gw[r])
        /\ gw[r].response.status = 503
        /\ proc.status = "not_ready"
        /\ ~proc.exited
        /\ isConnected

\* The entry j of the compiled routes takes requests of this method and path.
C31_Hit(j, method, path) ==
    /\ method \in routing.compiledRoutes[j].route.methods
    /\ regexpExec(routing.compiledRoutes[j].regexp, path)

\* C31: findRoute returns the first entry, in the order of the list, whose
\* regexp matches the path and whose methods contain the method, and null
\* when there is none; addRoute puts the new route after all existing ones.
C31_FirstMatchInOrder ==
    /\ [](ret # <<>> /\ ret[1].op = "findRoute"
            => LET i == ret[1].index
                   method == ret[1].args[1]
                   path == ret[1].args[2]
               IN IF i = 0
                  THEN \A j \in DOMAIN routing.compiledRoutes : ~C31_Hit(j, method, path)
                  ELSE /\ C31_Hit(i, method, path)
                       /\ \A j \in 1..(i - 1) : ~C31_Hit(j, method, path))
    /\ [][ret' # <<>> /\ ret'[1].op = "addRoute" /\ ret'[1].ok
            => /\ routing'.compiledRoutes
                    = Append(routing.compiledRoutes, compiled(routeOf(ret'[1].args[1])))
               /\ routing'.routes = Append(routing.routes, routeOf(ret'[1].args[1]))]_vars

\* A lookup has returned a route of the configuration although a route that
\* addRoute appended takes the request too.
C31_Witness ==
    /\ ret # <<>>
    /\ ret[1].op = "findRoute"
    /\ ret[1].index \in DOMAIN Routes
    /\ \E j \in DOMAIN routing.compiledRoutes :
          j > Len(Routes) /\ C31_Hit(j, ret[1].args[1], ret[1].args[2])

\* The paths of a list of routes, in the order of the list.
C40_Paths(list, field) == [i \in DOMAIN list |-> list[i][field]]

\* C40: routes and compiledRoutes hold the same paths in the same order; an
\* addRoute that fails fails with INVALID_ROUTE_CONFIG and changes neither
\* list; removeRoute(path) leaves no entry of that path in either list and
\* returns true exactly when it removed an entry.
C40_RouteTableConsistency ==
    /\ [](C40_Paths(routing.routes, "path") = C40_Paths(routing.compiledRoutes, "originalPath"))
    /\ [][ret' # <<>> /\ ret'[1].op = "addRoute" /\ ~ret'[1].ok
            => ret'[1].error = "INVALID_ROUTE_CONFIG" /\ routing' = routing]_vars
    /\ [][ret' # <<>> /\ ret'[1].op = "removeRoute"
            => /\ \A i \in DOMAIN routing'.routes : routing'.routes[i].path # ret'[1].args[1]
               /\ \A i \in DOMAIN routing'.compiledRoutes :
                      routing'.compiledRoutes[i].originalPath # ret'[1].args[1]
               /\ ret'[1].ok <=> \E i \in DOMAIN routing.routes :
                                     routing.routes[i].path = ret'[1].args[1]]_vars

\* The counter the spec names for a request of the limiter: the user's tier
\* and user:<id> for an authenticated request, the route's tier and
\* ip:<client-ip> otherwise, and the start of the window of the sampled time.
C32_Counter(q) ==
    LET ctx == q.ctx[1]
        tier == IF ctx.user # <<>> THEN ctx.user[1].tier ELSE ctx.routeTier
        identity == IF ctx.user # <<>> THEN <<"user", ctx.user[1].id>> ELSE <<"ip", ctx.clientIp>>
        windowMs == getTierConfig(rateLimitTiers, defaultTier, tier).windowMs
    IN <<<<tier, identity>>, windowStartOf(q.t0, windowMs)>>

\* C32: a decision of the limiter debits the counter of the request's
\* effective tier, identity and window when it allows the request, and
\* changes no other counter.
C32_DebitsOwnCounter ==
    [][\A r \in Reqs :
          (reqs[r].pc \in {"get", "incr"} /\ reqs'[r].pc \in {"passed", "rejected"})
          => LET key == C32_Counter(reqs[r])
                 before == IF key \in DOMAIN store THEN store[key].count ELSE 0
             IN /\ \A k \in (DOMAIN store \cup DOMAIN store') \ {key} :
                       k \in DOMAIN store /\ k \in DOMAIN store' /\ store'[k] = store[k]
                /\ IF reqs'[r].pc = "passed"
                   THEN key \in DOMAIN store' /\ store'[key].count = before + 1
                   ELSE store' = store]_vars

\* A user's request has been allowed while the counters of another user of
\* the same tier and of the user's client address are in the store.
C32_Witness ==
    \E r \in Reqs :
        /\ reqs[r].pc = "passed"
        /\ reqs[r].ctx[1].user # <<>>
        /\ Cardinality({k \in DOMAIN store : k[1][1] = reqs[r].tier}) >= 2
        /\ \E k \in DOMAIN store : k[1][2] = <<"ip", reqs[r].ctx[1].clientIp>>

\* C33: before attempt i >= 1 the dispatcher waits a base delay of
\* min(1000 * 2^(i-1), 10000) ms plus a jitter in [0, 0.1 * delay); the base
\* delays are 1000, 2000, 4000, 8000 and then 10000 for every later attempt,
\* so they never decrease and never exceed 10000; nothing is waited before
\* attempt 0.
C33_BaseDelay(i) ==
    CASE i = 1 -> 1000
      [] i = 2 -> 2000
      [] i = 3 -> 4000
      [] i = 4 -> 8000
      [] OTHER -> 10000

C33_RetryDelays ==
    (Len(ret) = 1 /\ ret[1].delay # Null) =>
        LET t == ret[1] IN
        /\ t.attempt = 0 => (~t.isRetry /\ t.waitMicros = 0)
        /\ t.attempt >= 1 =>
            /\ t.isRetry
            /\ t.delay = C33_BaseDelay(t.attempt)
            /\ t.delay <= 10000
            /\ t.attempt >= 2 => t.delay >= retryDelay(t.attempt - 1)
            /\ t.jitterMicros >= 0
            /\ 10 * t.jitterMicros < 1000 * t.delay
            /\ t.waitMicros = 1000 * t.delay + t.jitterMicros

\* The delay of a late attempt is capped and carries a jitter.
C33_Witness ==
    /\ Len(ret) = 1
    /\ ret[1].attempt = 6
    /\ ret[1].delay = 10000
    /\ ret[1].jitterMicros = 999000

\* C34: there is one breaker per service key host:port.  Targets with the
\* same host and port have the same key and targets that differ in host or
\* port have different keys; a request creates the breaker of its key when
\* the table has none and otherwise meets the breaker that is there, with
\* its failure count and last failure time; no breaker is ever dropped; and
\* a step that changes a breaker is a step of a call on that breaker's key.
C34_Port(url) ==
    IF url.port # "" THEN url.port ELSE IF url.protocol = "https:" THEN "443" ELSE "80"

C34_KeyIsHostAndPort ==
    \A t1, t2 \in RegistryTargets :
        (URL(t1) # <<>> /\ URL(t2) # <<>>)
        => ((extractServiceName(t1) = extractServiceName(t2))
            <=> (/\ URL(t1)[1].hostname = URL(t2)[1].hostname
                 /\ C34_Port(URL(t1)[1]) = C34_Port(URL(t2)[1])))

C34_OneBreakerPerService ==
    /\ C34_KeyIsHostAndPort
    /\ [][/\ \A c \in Callers, t \in RegistryTargets :
                ForwardTo(c, t)
                => LET k == extractServiceName(t) IN
                   /\ k \in DOMAIN circuitBreakers'
                   /\ DOMAIN circuitBreakers' = DOMAIN circuitBreakers \cup {k}
                   /\ k \notin DOMAIN circuitBreakers => circuitBreakers'[k] = NewBreaker
                   /\ k \in DOMAIN circuitBreakers =>
                        /\ circuitBreakers'[k].failureCount = circuitBreakers[k].failureCount
                        /\ circuitBreakers'[k].lastFailureTime = circuitBreakers[k].lastFailureTime
                        /\ circuitBreakers'[k].nextAttempt = circuitBreakers[k].nextAttempt
          /\ \A k \in DOMAIN circuitBreakers :
                /\ k \in DOMAIN circuitBreakers'
                /\ circuitBreakers'[k] # circuitBreakers[k]
                   => \E c \in Callers :
                        /\ calls'[c] # calls[c]
                        /\ k \in {calls[c].svc, calls'[c].svc}
                        /\ \A c2 \in Callers \ {c} : calls'[c2] = calls[c2]]_vars

\* The two spellings of localhost:3001 have opened one breaker between
\* them, and the breaker of localhost:443 is closed with a call in flight.
C34_Witness ==
    /\ DOMAIN circuitBreakers = RegistryKeys
    /\ circuitBreakers["localhost:3001"].state = OPEN
    /\ circuitBreakers["localhost:443"].state = CLOSED
    /\ circuitBreakers["localhost:443"].failureCount = 1
    /\ \E c \in Callers : calls[c] = [pc |-> "inflight", svc |-> "localhost:443"]

\* C35: whatever calls, completions of calls in flight and resets have
\* happened, every breaker satisfies: CLOSED implies failureCount below
\* failureThreshold; OPEN implies nextAttempt is set; HALF_OPEN implies
\* successCount below 3; and successCount is at most 3 in every state.
C35_BreakerInvariant ==
    \A s \in DOMAIN circuitBreakers :
        LET b == circuitBreakers[s] IN
        /\ b.state = CLOSED => b.failureCount < failureThreshold
        /\ b.state = OPEN => b.nextAttempt # Null
        /\ b.state = HALF_OPEN => b.successCount < 3
        /\ b.successCount <= 3

\* A breaker closed by its third success while the other caller's call on it
\* is still in flight.
C35_Witness ==
    \E s \in DOMAIN circuitBreakers :
        /\ circuitBreakers[s].state = CLOSED
        /\ circuitBreakers[s].successCount = 3
        /\ \E c \in Callers : calls[c] = [pc |-> "inflight", svc |-> s]

\* The stored counter of a window key (0 when the key does not exist), and
\* the store key of a history key.
C36_Count(st, key) == IF key \in DOMAIN st THEN st[key].count ELSE 0
C36_StoreKey(k) ==
    <<<<k[1], <<IF k[3] THEN "user" ELSE "ip", k[2]>>>>,
      k[4] * getTierConfig(rateLimitTiers, defaultTier, k[1]).windowMs>>

\* No stored counter exceeds the limit of its tier.
C36_CounterWithinLimit ==
    \A key \in DOMAIN store :
        store[key].count <= getTierConfig(rateLimitTiers, defaultTier, key[1][1]).requests

\* The counter of every window the clock is in equals the number of requests
\* that the store-computed decisions allowed in it.
C36_CounterIsAllowedCount ==
    /\ \A k \in DOMAIN allowedIn : C36_Count(store, C36_StoreKey(k)) = allowedIn[k]
    /\ \A key \in DOMAIN store :
          LET w == getTierConfig(rateLimitTiers, defaultTier, key[1][1]).windowMs IN
          key[2] = (now \div w) * w
          => \E k \in DOMAIN allowedIn : C36_StoreKey(k) = key

\* C36 as stated: with the requests of one identity and tier processed one
\* at a time, a denied decision leaves the counter of its window as it was,
\* every allowed request adds exactly one to it (so that the counter is the
\* number of allowed requests), and the counter never exceeds L.
C36_AllowedEqualsCounter ==
    /\ []C36_CounterWithinLimit
    /\ [][\A r \in Reqs :
             reqs'[r].pc \in {"passed", "rejected"}
             => LET key == windowKeyOf(reqs'[r]) IN
                /\ reqs'[r].pc = "rejected" => C36_Count(store', key) = C36_Count(store, key)
                /\ reqs'[r].pc = "passed" => C36_Count(store', key) = C36_Count(store, key) + 1]_vars

\* C36, amended: a denied decision leaves the counter as it was and an
\* allowed decision computed from the store adds exactly one to it; the
\* counter never exceeds L; and as long as no store operation fails and the
\* store is connected, the counter of the current window equals the number
\* of requests allowed in it.
C36_StoreDecisionsCounted ==
    /\ []C36_CounterWithinLimit
    /\ [][/\ \A r \in Reqs :
                reqs'[r].pc \in {"passed", "rejected"}
                => LET key == windowKeyOf(reqs'[r]) IN
                   /\ reqs'[r].pc = "rejected" => C36_Count(store', key) = C36_Count(store, key)
                   /\ (reqs'[r].pc = "passed" /\ ~reqs'[r].infra)
                      => C36_Count(store', key) = C36_Count(store, key) + 1
          /\ (C36_CounterIsAllowedCount /\ \A r \in Reqs : ~reqs'[r].infra)
             => C36_CounterIsAllowedCount']_vars

\* The counter stands at a limit of 2 after two allowed requests, and a third
\* request of the same identity has just been denied.
C36_Witness ==
    \E r \in Reqs :
        /\ reqs[r].pc = "rejected"
        /\ cfgOf(reqs[r]).requests = 2
        /\ C36_Count(store, windowKeyOf(reqs[r])) = 2
        /\ AllowedSoFar(reqs[r]) = 2

\* C37: the identity headers of the upstream request come from the verified
\* token only.  The upstream request has X-User-Id, X-User-Roles and
\* X-User-Tier exactly when the request is authenticated, with the id, the
\* comma-joined roles and the tier of the user context; and the upstream
\* request of an unauthenticated request is the same for every choice of
\* X-User-* headers that the client sends with it.
C37_IdentityHeaders == {"x-user-id", "x-user-roles", "x-user-tier"}

C37_IdentityFromTokenOnly ==
    (Len(ret) = 1 /\ ret[1].upstream # <<>>) =>
        LET req == ret[1].req
            sent == ret[1].upstream[1]
        IN /\ req.context.user = <<>> => DOMAIN sent \cap C37_IdentityHeaders = {}
           /\ req.context.user # <<>> =>
                /\ C37_IdentityHeaders \subseteq DOMAIN sent
                /\ sent["x-user-id"] = req.context.user[1].id
                /\ sent["x-user-tier"] = req.context.user[1].tier
                /\ sent["x-user-roles"] \in {"user", "user,support"}
           /\ req.context.user = <<>> =>
                \A other \in ForwardedRequests :
                    (/\ other.context = req.context
                     /\ without(other.headers, C37_IdentityHeaders)
                            = without(req.headers, C37_IdentityHeaders))
                    => buildUpstreamHeaders(other, ret[1].route) = sent

\* The service key of the request in slot r, and: the upstream call of the
\* request in slot r is in flight and was admitted before the current
\* HALF_OPEN period of its breaker began (a period begins at or after
\* nextAttempt, and nextAttempt is later than every earlier admission).
C38_Service(r) == extractServiceName(Routes[gw[r].route].target)
C38_AdmittedEarlier(r) ==
    /\ gw[r].pc = "inflight"
    /\ circuitBreakers[C38_Service(r)].state = HALF_OPEN
    /\ gw[r].sentAt < circuitBreakers[C38_Service(r)].nextAttempt

\* C38: with several calls to one upstream in flight, the success of a call
\* that was admitted before the current HALF_OPEN period began does not
\* increment successCount and does not close the breaker.
C38_LateSuccessNotCounted ==
    [][\A r \in Reqs :
          (C38_AdmittedEarlier(r) /\ GwUpstreamResponds(r, 200))
          => /\ circuitBreakers'[C38_Service(r)].successCount
                    = circuitBreakers[C38_Service(r)].successCount
             /\ circuitBreakers'[C38_Service(r)].state = HALF_OPEN]_vars

\* C39: while a breaker is OPEN, the completion of a call in flight (which
\* was admitted before the breaker opened) changes neither its state nor
\* its nextAttempt.
C39_LateCompletionKeepsDeadline ==
    [][\A r \in Reqs :
          (/\ gw[r].pc = "inflight"
           /\ circuitBreakers[C38_Service(r)].state = OPEN
           /\ gw'[r].pc # "inflight")
          => /\ circuitBreakers'[C38_Service(r)].state = OPEN
             /\ circuitBreakers'[C38_Service(r)].nextAttempt
                    = circuitBreakers[C38_Service(r)].nextAttempt]_vars
====
